---- MODULE Spec2Model ----
(***************************************************************************)
(* A model of the GPU NIP-13 proof-of-work miner: the OpenCL candidate     *)
(* kernels (mine.cl and the poclbm-adapted kernel), the SHA-256 they       *)
(* compute, and the Go host's batch loop.                                  *)
(*                                                                         *)
(* Numbers keep their machine width.  A 32-bit word is a pair <<hi, lo>>   *)
(* of 16-bit halves; a 64-bit integer is a tuple of four 16-bit limbs,     *)
(* most significant first.  Bytes are naturals 0..255 and buffers are      *)
(* 1-indexed sequences of bytes, so C index i is TLA+ index i + 1.         *)
(***************************************************************************)
EXTENDS Integers, Sequences, FiniteSets, TLC

\* ---------------------------------------------------------------------
\* 32-bit word arithmetic (OpenCL uint)
\* ---------------------------------------------------------------------
RECURSIVE BitAnd(_, _, _)
BitAnd(a, b, n) == IF n = 0 THEN 0
                   ELSE (IF a % 2 = 1 /\ b % 2 = 1 THEN 1 ELSE 0) + 2 * BitAnd(a \div 2, b \div 2, n - 1)
RECURSIVE BitXor(_, _, _)
BitXor(a, b, n) == IF n = 0 THEN 0
                   ELSE (IF a % 2 # b % 2 THEN 1 ELSE 0) + 2 * BitXor(a \div 2, b \div 2, n - 1)
AndTab == [a \in 0..255 |-> [b \in 0..255 |-> BitAnd(a, b, 8)]]
XorTab == [a \in 0..255 |-> [b \in 0..255 |-> BitXor(a, b, 8)]]
\* A bitwise operation on 16-bit halves by its byte table tab.
Bitwise16(tab, a, b) == tab[a \div 256][b \div 256] * 256 + tab[a % 256][b % 256]
Bitwise32(tab, x, y) == <<Bitwise16(tab, x[1], y[1]), Bitwise16(tab, x[2], y[2])>>
Word == (0..65535) \X (0..65535)
Byte == 0..255
AND(x, y) == Bitwise32(AndTab, x, y)
XOR(x, y) == Bitwise32(XorTab, x, y)
NOT(x) == <<65535 - x[1], 65535 - x[2]>>
ADD(x, y) == LET lo == x[2] + y[2] IN <<(x[1] + y[1] + lo \div 65536) % 65536, lo % 65536>>
SHR(x, b) == IF b >= 16 THEN <<0, x[1] \div 2^(b - 16)>>
             ELSE <<x[1] \div 2^b, (x[2] \div 2^b) + (x[1] % 2^b) * 2^(16 - b)>>
SHL(x, b) == IF b >= 16 THEN <<(x[2] * 2^(b - 16)) % 65536, 0>>
             ELSE <<((x[1] * 2^b) % 65536) + x[2] \div 2^(16 - b), (x[2] * 2^b) % 65536>>

\* ---------------------------------------------------------------------
\* mine.cl: SHA-256 compression
\* ---------------------------------------------------------------------
\* The bitwise or of two words with no set bit in common.
OR(r, l) == <<r[1] + l[1], r[2] + l[2]>>
ROTRIGHT(a, b) == OR(SHR(a, b), SHL(a, 32 - b))
CH(x, y, z) == XOR(AND(x, y), AND(NOT(x), z))
MAJ(x, y, z) == XOR(XOR(AND(x, y), AND(x, z)), AND(y, z))
EP0(x) == XOR(XOR(ROTRIGHT(x, 2), ROTRIGHT(x, 13)), ROTRIGHT(x, 22))
EP1(x) == XOR(XOR(ROTRIGHT(x, 6), ROTRIGHT(x, 11)), ROTRIGHT(x, 25))
SIG0(x) == XOR(XOR(ROTRIGHT(x, 7), ROTRIGHT(x, 18)), SHR(x, 3))
SIG1(x) == XOR(XOR(ROTRIGHT(x, 17), ROTRIGHT(x, 19)), SHR(x, 10))

k == <<
    <<\H428a, \H2f98>>, <<\H7137, \H4491>>, <<\Hb5c0, \Hfbcf>>, <<\He9b5, \Hdba5>>,
    <<\H3956, \Hc25b>>, <<\H59f1, \H11f1>>, <<\H923f, \H82a4>>, <<\Hab1c, \H5ed5>>,
    <<\Hd807, \Haa98>>, <<\H1283, \H5b01>>, <<\H2431, \H85be>>, <<\H550c, \H7dc3>>,
    <<\H72be, \H5d74>>, <<\H80de, \Hb1fe>>, <<\H9bdc, \H06a7>>, <<\Hc19b, \Hf174>>,
    <<\He49b, \H69c1>>, <<\Hefbe, \H4786>>, <<\H0fc1, \H9dc6>>, <<\H240c, \Ha1cc>>,
    <<\H2de9, \H2c6f>>, <<\H4a74, \H84aa>>, <<\H5cb0, \Ha9dc>>, <<\H76f9, \H88da>>,
    <<\H983e, \H5152>>, <<\Ha831, \Hc66d>>, <<\Hb003, \H27c8>>, <<\Hbf59, \H7fc7>>,
    <<\Hc6e0, \H0bf3>>, <<\Hd5a7, \H9147>>, <<\H06ca, \H6351>>, <<\H1429, \H2967>>,
    <<\H27b7, \H0a85>>, <<\H2e1b, \H2138>>, <<\H4d2c, \H6dfc>>, <<\H5338, \H0d13>>,
    <<\H650a, \H7354>>, <<\H766a, \H0abb>>, <<\H81c2, \Hc92e>>, <<\H9272, \H2c85>>,
    <<\Ha2bf, \He8a1>>, <<\Ha81a, \H664b>>, <<\Hc24b, \H8b70>>, <<\Hc76c, \H51a3>>,
    <<\Hd192, \He819>>, <<\Hd699, \H0624>>, <<\Hf40e, \H3585>>, <<\H106a, \Ha070>>,
    <<\H19a4, \Hc116>>, <<\H1e37, \H6c08>>, <<\H2748, \H774c>>, <<\H34b0, \Hbcb5>>,
    <<\H391c, \H0cb3>>, <<\H4ed8, \Haa4a>>, <<\H5b9c, \Hca4f>>, <<\H682e, \H6ff3>>,
    <<\H748f, \H82ee>>, <<\H78a5, \H636f>>, <<\H84c8, \H7814>>, <<\H8cc7, \H0208>>,
    <<\H90be, \Hfffa>>, <<\Ha450, \H6ceb>>, <<\Hbef9, \Ha3f7>>, <<\Hc671, \H78f2>> >>

H0 == <<
    <<\H6a09, \He667>>, <<\Hbb67, \Hae85>>, <<\H3c6e, \Hf372>>, <<\Ha54f, \Hf53a>>,
    <<\H510e, \H527f>>, <<\H9b05, \H688c>>, <<\H1f83, \Hd9ab>>, <<\H5be0, \Hcd19>> >>

\* Big-endian word i (0-based) of a 64-byte block.
BlockWord(block, i) == <<block[4 * i + 1] * 256 + block[4 * i + 2], block[4 * i + 3] * 256 + block[4 * i + 4]>>
\* w[j] of the message schedule, j 1-based, from the j - 1 words before it.
ScheduleWord(w, j) == ADD(ADD(ADD(SIG1(w[j - 2]), w[j - 7]), SIG0(w[j - 15])), w[j - 16])
\* One round of the compression loop on the working variables a..h.
\* The rotation of the working variables at the end of a round.
Rotate(s, temp1, temp2) ==
    <<ADD(temp1, temp2), s[1], s[2], s[3], ADD(s[4], temp1), s[5], s[6], s[7]>>
Round(s, kw) ==
    LET S1 == EP1(s[5])
        ch == CH(s[5], s[6], s[7])
        temp1 == ADD(ADD(ADD(s[8], S1), ch), kw)
        S0 == EP0(s[1])
        maj == MAJ(s[1], s[2], s[3])
        temp2 == ADD(S0, maj)
    IN Rotate(s, temp1, temp2)
Schedule[w \in Seq(Word), i \in 16..64] ==
    IF i = 64 THEN w ELSE Schedule[Append(w, ScheduleWord(w, i + 1)), i + 1]
Rounds[s \in Seq(Word), w \in Seq(Word), i \in 0..64] ==
    IF i = 64 THEN s ELSE Rounds[Round(s, ADD(k[i + 1], w[i + 1])), w, i + 1]
process_block(block, h) ==
    LET w == Schedule[[i \in 1..16 |-> BlockWord(block, i - 1)], 16]
        s == Rounds[h, w, 0]
    IN [i \in 1..8 |-> ADD(h[i], s[i])]

\* ---------------------------------------------------------------------
\* mine.cl: padding, digest and difficulty evaluation
\* ---------------------------------------------------------------------
\* Byte i (0-based) of the big-endian 64-bit bit length of an input of
\* input_length bytes, (uchar)((bit_length >> (56 - i * 8)) & 0xff).
LengthByte(input_length, i) ==
    IF i < 4 THEN 0 ELSE ((input_length * 8) \div 2^(56 - i * 8)) % 256
\* The big-endian bytes of the eight state words.
WriteOutput(h) ==
    [j \in 1..32 |->
        LET wd == h[(j - 1) \div 4 + 1]
            half == IF ((j - 1) % 4) < 2 THEN wd[1] ELSE wd[2]
        IN IF (j - 1) % 2 = 0 THEN half \div 256 ELSE half % 256]
\* The loop over the complete 64-byte blocks b .. n - 1 of the input.
CompleteBlocks[h \in Seq(Word), input \in Seq(Byte), b \in Nat, n \in Nat] ==
    IF b >= n THEN h
    ELSE CompleteBlocks[process_block(SubSeq(input, 64 * b + 1, 64 * b + 64), h), input, b + 1, n]
\* The final block, or the two final blocks, processed in order.
FinalBlocks[h \in Seq(Word), blocks \in Seq(Seq(Byte)), i \in Nat] ==
    IF i > Len(blocks) THEN h ELSE FinalBlocks[process_block(blocks[i], h), blocks, i + 1]
\* A faulty variant of the padding that never takes a second final block.
final_blocks_single(input, input_length) ==
    LET num_complete_blocks == input_length \div 64
        remaining_bytes == input_length % 64
    IN << [i \in 1..64 |->
              IF i > 56 THEN LengthByte(input_length, i - 57)
              ELSE IF i <= remaining_bytes THEN input[num_complete_blocks * 64 + i]
              ELSE IF i = remaining_bytes + 1 THEN 128 ELSE 0] >>
\* The blocks sha256_generic builds after the complete blocks: the rest of
\* the input with the padding, in one block or in two.
final_blocks(input, input_length) ==
    LET num_complete_blocks == input_length \div 64
        remaining_bytes == input_length % 64
        tail == [i \in 1..64 |->
                    IF i <= remaining_bytes THEN input[num_complete_blocks * 64 + i]
                    ELSE IF i = remaining_bytes + 1 THEN 128 ELSE 0]
        withLength(blk) == [i \in 1..64 |-> IF i > 56 THEN LengthByte(input_length, i - 57) ELSE blk[i]]
        zeros == [i \in 1..64 |-> 0]
    IN IF remaining_bytes < 56 THEN <<withLength(tail)>> ELSE <<tail, withLength(zeros)>>
sha256_generic(input, input_length) ==
    WriteOutput(FinalBlocks[CompleteBlocks[H0, input, 0, input_length \div 64],
                            final_blocks(input, input_length), 1])

\* Leading zero bits of one non-zero byte: the inner loop from bit 7 down.
RECURSIVE ByteLeadingZeros(_, _)
ByteLeadingZeros(b, j) ==
    IF j < 0 \/ (b \div 2^j) % 2 = 1 THEN 0 ELSE 1 + ByteLeadingZeros(b, j - 1)
RECURSIVE CountFrom(_, _)
CountFrom(hash, i) ==
    IF i > 32 THEN 0
    ELSE IF hash[i] = 0 THEN 8 + CountFrom(hash, i + 1)
    ELSE ByteLeadingZeros(hash[i], 7)
\* A faulty variant of the count that stops at the first non-zero byte
\* without the bits of that byte.
count_leading_zero_bytes(hash) == 8 * Cardinality({i \in 1..32 : \A j \in 1..i : hash[j] = 0})
count_leading_zero_bits(hash) == CountFrom(hash, 1)

\* ---------------------------------------------------------------------
\* sha256.cl: the one-block digest kernel
\* ---------------------------------------------------------------------
\* The output buffer after the kernel sha256 has run: inputs over 55 bytes
\* return with no store; the compression loop is that of process_block.
sha256(input, output, input_length) ==
    IF input_length > 55 THEN output
    ELSE LET block == [i \in 1..64 |->
                          IF i <= input_length THEN input[i]
                          ELSE IF i = input_length + 1 THEN 128
                          ELSE IF i <= 56 THEN 0
                          ELSE LengthByte(input_length, i - 57)]
         IN WriteOutput(process_block(block, H0))

\* ---------------------------------------------------------------------
\* 64-bit integers (OpenCL ulong, Go int64/uint64): four 16-bit limbs,
\* most significant first, arithmetic modulo 2^64
\* ---------------------------------------------------------------------
U64 == [1..4 -> 0..65535]
U64FromNat(n) == <<0, 0, n \div 65536, n % 65536>>
U64Add(a, b) ==
    LET s4 == a[4] + b[4]
        s3 == a[3] + b[3] + s4 \div 65536
        s2 == a[2] + b[2] + s3 \div 65536
        s1 == a[1] + b[1] + s2 \div 65536
    IN <<s1 % 65536, s2 % 65536, s3 % 65536, s4 % 65536>>
U64Not(a) == <<65535 - a[1], 65535 - a[2], 65535 - a[3], 65535 - a[4]>>
U64Sub(a, b) == U64Add(U64Add(a, U64Not(b)), U64FromNat(1))
U64Mul10(a) ==
    LET p4 == a[4] * 10
        p3 == a[3] * 10 + p4 \div 65536
        p2 == a[2] * 10 + p3 \div 65536
        p1 == a[1] * 10 + p2 \div 65536
    IN <<p1 % 65536, p2 % 65536, p3 % 65536, p4 % 65536>>
\* Quotient and remainder of an unsigned division by ten.
U64DivMod10(a) ==
    LET c1 == a[1]
        c2 == (c1 % 10) * 65536 + a[2]
        c3 == (c2 % 10) * 65536 + a[3]
        c4 == (c3 % 10) * 65536 + a[4]
    IN [q |-> <<c1 \div 10, c2 \div 10, c3 \div 10, c4 \div 10>>, r |-> c4 % 10]
\* Unsigned a < b.
U64Lt(a, b) ==
    \E i \in 1..4 : a[i] < b[i] /\ \A j \in 1..(i - 1) : a[j] = b[j]
\* Signed (two's complement) a < b.
I64Lt(a, b) ==
    LET flip(v) == <<(v[1] + 32768) % 65536, v[2], v[3], v[4]>>
    IN U64Lt(flip(a), flip(b))
\* (ulong) of a 32-bit int: sign extension.
SignExtend(w) == IF w[1] >= 32768 THEN <<65535, 65535, w[1], w[2]>> ELSE <<0, 0, w[1], w[2]>>

\* ---------------------------------------------------------------------
\* mine.cl: the candidate kernel
\* ---------------------------------------------------------------------
\* The loop of int_to_ascii: cnt digits still to write in front of acc.
AsciiDigits[n \in U64, cnt \in Int, acc \in Seq(Byte)] ==
    IF cnt <= 0 THEN acc
    ELSE LET d == U64DivMod10(n) IN AsciiDigits[d.q, cnt - 1, <<48 + d.r>> \o acc]
int_to_ascii(n, num_digits) == AsciiDigits[n, num_digits, <<>>]
\* max_nonce after the loop "max_nonce *= 10" has run for i .. num_digits - 1.
TimesTen[m \in U64, i \in Nat, num_digits \in Int] ==
    IF i >= num_digits THEN m ELSE TimesTen[U64Mul10(m), i + 1, num_digits]
\* The eight big-endian bytes of a ulong.
BigEndian8(n) == [i \in 1..8 |-> IF i % 2 = 1 THEN n[(i + 1) \div 2] \div 256 ELSE n[i \div 2] % 256]
\* The writes work-item global_id makes to the results buffer, in program
\* order, as <<index, byte>> pairs (index 0-based as in the kernel).
\* The writes of a lane that has computed the digest hash of its candidate.
WriteResult(a, global_id, nonce, hash) ==
    LET leading_zeros == count_leading_zero_bits(hash)
        nonce_be == BigEndian8(nonce)
    IN IF leading_zeros >= a.difficulty
       THEN << <<global_id * 41, 1>> >>
            \o [i \in 1..8 |-> <<global_id * 41 + i, nonce_be[i]>>]
            \o [i \in 1..32 |-> <<global_id * 41 + 8 + i, hash[i]>>]
       ELSE << <<global_id * 41, 0>> >>
mine_nonce(a, global_id) ==
    LET nonce == U64Add(SignExtend(a.base_nonce), U64FromNat(global_id))
        max_nonce == U64Sub(TimesTen[U64FromNat(1), 0, a.num_digits], U64FromNat(1))
        nonce_str == int_to_ascii(nonce, a.num_digits)
        serialized_copy ==
            [i \in 1..a.serialized_length |->
                IF i > a.nonce_offset /\ i <= a.nonce_offset + a.num_digits
                THEN nonce_str[i - a.nonce_offset] ELSE a.base_serialized[i]]
    IN IF U64Lt(max_nonce, nonce) THEN << <<global_id * 41, 0>> >>
       ELSE IF a.serialized_length > 2048 THEN << <<global_id * 41, 0>> >>
       ELSE IF a.num_digits > 22 THEN << <<global_id * 41, 0>> >>
       ELSE WriteResult(a, global_id, nonce, sha256_generic(serialized_copy, a.serialized_length))

\* ---------------------------------------------------------------------
\* poclbm kernel: SHA-256 adapted from bfgminer, padding and candidate
\* ---------------------------------------------------------------------
K == <<
    <<\H428a, \H2f98>>, <<\H7137, \H4491>>, <<\Hb5c0, \Hfbcf>>, <<\He9b5, \Hdba5>>,
    <<\H3956, \Hc25b>>, <<\H59f1, \H11f1>>, <<\H923f, \H82a4>>, <<\Hab1c, \H5ed5>>,
    <<\Hd807, \Haa98>>, <<\H1283, \H5b01>>, <<\H2431, \H85be>>, <<\H550c, \H7dc3>>,
    <<\H72be, \H5d74>>, <<\H80de, \Hb1fe>>, <<\H9bdc, \H06a7>>, <<\Hc19b, \Hf174>>,
    <<\He49b, \H69c1>>, <<\Hefbe, \H4786>>, <<\H0fc1, \H9dc6>>, <<\H240c, \Ha1cc>>,
    <<\H2de9, \H2c6f>>, <<\H4a74, \H84aa>>, <<\H5cb0, \Ha9dc>>, <<\H76f9, \H88da>>,
    <<\H983e, \H5152>>, <<\Ha831, \Hc66d>>, <<\Hb003, \H27c8>>, <<\Hbf59, \H7fc7>>,
    <<\Hc6e0, \H0bf3>>, <<\Hd5a7, \H9147>>, <<\H06ca, \H6351>>, <<\H1429, \H2967>>,
    <<\H27b7, \H0a85>>, <<\H2e1b, \H2138>>, <<\H4d2c, \H6dfc>>, <<\H5338, \H0d13>>,
    <<\H650a, \H7354>>, <<\H766a, \H0abb>>, <<\H81c2, \Hc92e>>, <<\H9272, \H2c85>>,
    <<\Ha2bf, \He8a1>>, <<\Ha81a, \H664b>>, <<\Hc24b, \H8b70>>, <<\Hc76c, \H51a3>>,
    <<\Hd192, \He819>>, <<\Hd699, \H0624>>, <<\Hf40e, \H3585>>, <<\H106a, \Ha070>>,
    <<\H19a4, \Hc116>>, <<\H1e37, \H6c08>>, <<\H2748, \H774c>>, <<\H34b0, \Hbcb5>>,
    <<\H391c, \H0cb3>>, <<\H4ed8, \Haa4a>>, <<\H5b9c, \Hca4f>>, <<\H682e, \H6ff3>>,
    <<\H748f, \H82ee>>, <<\H78a5, \H636f>>, <<\H84c8, \H7814>>, <<\H8cc7, \H0208>>,
    <<\H90be, \Hfffa>>, <<\Ha450, \H6ceb>>, <<\Hbef9, \Ha3f7>>, <<\Hc671, \H78f2>> >>

rotl(x, y) == OR(SHL(x, y), SHR(x, 32 - y))
\* OpenCL bitselect(a, b, c): each bit of b where c is 1, of a where c is 0.
bitselect(a, b, c) == XOR(AND(a, NOT(c)), AND(b, c))
Ch(x, y, z) == bitselect(z, y, x)
Maj(x, y, z) == Ch(XOR(x, z), y, z)
Tr2(x) == XOR(XOR(rotl(x, 30), rotl(x, 19)), rotl(x, 10))
Tr1(x) == XOR(XOR(rotl(x, 26), rotl(x, 21)), rotl(x, 7))
Wr2(x) == XOR(XOR(rotl(x, 25), rotl(x, 14)), SHR(x, 3))
Wr1(x) == XOR(XOR(rotl(x, 15), rotl(x, 13)), SHR(x, 10))
ExtendWord(w, j) == ADD(ADD(ADD(Wr1(w[j - 2]), w[j - 7]), Wr2(w[j - 15])), w[j - 16])
MainLoopStep(s, kw) ==
    LET S1 == Tr1(s[5])
        ch == Ch(s[5], s[6], s[7])
        temp1 == ADD(ADD(ADD(s[8], S1), ch), kw)
        S0 == Tr2(s[1])
        maj == Maj(s[1], s[2], s[3])
        temp2 == ADD(S0, maj)
    IN Rotate(s, temp1, temp2)
Extend[w \in Seq(Word), i \in 16..64] ==
    IF i = 64 THEN w ELSE Extend[Append(w, ExtendWord(w, i + 1)), i + 1]
MainLoop[s \in Seq(Word), w \in Seq(Word), i \in 0..64] ==
    IF i = 64 THEN s ELSE MainLoop[MainLoopStep(s, ADD(K[i + 1], w[i + 1])), w, i + 1]
sha256_block_bfgminer_poclbm(block, h) ==
    LET w == Extend[[i \in 1..16 |-> BlockWord(block, i - 1)], 16]
        s == MainLoop[h, w, 0]
    IN [i \in 1..8 |-> ADD(h[i], s[i])]
\* The loop over the blocks b .. n - 1 of the padded message.
PaddedBlocks[h \in Seq(Word), padded \in Seq(Byte), b \in Nat, n \in Nat] ==
    IF b >= n THEN h
    ELSE PaddedBlocks[sha256_block_bfgminer_poclbm(SubSeq(padded, 64 * b + 1, 64 * b + 64), h),
                      padded, b + 1, n]
sha256_generic_poclbm(input, input_length) ==
    LET num_blocks == (input_length + 9) \div 64 + 1
        total_length == num_blocks * 64
        padded == [i \in 1..total_length |->
                      IF i <= input_length THEN input[i]
                      ELSE IF i = input_length + 1 THEN 128
                      ELSE IF i <= total_length - 8 THEN 0
                      ELSE LengthByte(input_length, i - (total_length - 8) - 1)]
    IN IF total_length > 2048 THEN [i \in 1..32 |-> 0]
       ELSE WriteOutput(PaddedBlocks[H0, padded, 0, num_blocks])
\* A faulty variant of the poclbm kernel that reports every lane as a hit.
mine_nonce_always_found(a, global_id) == << <<global_id, global_id>> >>
\* A faulty variant of the poclbm kernel in which a lane returns without
\* a store to its slot.
mine_nonce_no_store(a, global_id) == <<>>
\* The one write work-item global_id makes to the int results buffer, as an
\* <<index, value>> pair.
mine_nonce_poclbm(a, global_id) ==
    LET base_nonce == <<a.base_nonce_high[1], a.base_nonce_high[2], a.base_nonce_low[1], a.base_nonce_low[2]>>
        nonce == U64Add(base_nonce, U64FromNat(global_id))
        max_nonce == IF a.num_digits <= 19
                     THEN U64Sub(TimesTen[U64FromNat(1), 0, a.num_digits], U64FromNat(1))
                     ELSE <<65535, 65535, 65535, 65535>>
        nonce_str == int_to_ascii(nonce, a.num_digits)
        serialized_copy ==
            [i \in 1..a.serialized_length |->
                IF i > a.nonce_offset /\ i <= a.nonce_offset + a.num_digits
                THEN nonce_str[i - a.nonce_offset] ELSE a.base_serialized[i]]
        hash == sha256_generic_poclbm(serialized_copy, a.serialized_length)
        leading_zeros == count_leading_zero_bits(hash)
    IN IF U64Lt(max_nonce, nonce) THEN << <<global_id, -1>> >>
       ELSE IF a.serialized_length > 2048 THEN << <<global_id, -1>> >>
       ELSE IF a.num_digits > 22 THEN << <<global_id, -1>> >>
       ELSE IF leading_zeros >= a.difficulty THEN << <<global_id, global_id>> >>
       ELSE << <<global_id, -1>> >>

\* ---------------------------------------------------------------------
\* Host library functions (Go standard library, go-nostr, nip13)
\* ---------------------------------------------------------------------
\* Strings are sequences of bytes.  The literals the host uses:
NonceKey == <<110, 111, 110, 99, 101>>
\* strconv.Itoa for a natural number.
Itoa[n \in Nat] == IF n < 10 THEN <<48 + n>> ELSE Itoa[n \div 10] \o <<48 + (n % 10)>>
\* strconv.Atoi with the error ignored: 0 unless the string is all digits.
AtoiFrom[s \in Seq(Byte), acc \in Nat] ==
    IF s = <<>> THEN acc ELSE AtoiFrom[Tail(s), acc * 10 + (Head(s) - 48)]
Atoi(s) == IF s # <<>> /\ \A i \in 1..Len(s) : s[i] \in 48..57 THEN AtoiFrom[s, 0] ELSE 0
\* The decimal digits of an unsigned 64-bit value, without leading zeros.
NaturalDigits[n \in U64, acc \in Seq(Byte)] ==
    LET d == U64DivMod10(n)
    IN IF d.q = <<0, 0, 0, 0>> THEN <<48 + d.r>> \o acc
       ELSE NaturalDigits[d.q, <<48 + d.r>> \o acc]
\* fmt.Sprintf("%0*d", width, n) for a uint64: at least width characters.
SprintfU64(width, n) ==
    LET ds == NaturalDigits[n, <<>>]
    IN IF Len(ds) >= width THEN ds ELSE [i \in 1..(width - Len(ds)) |-> 48] \o ds
\* fmt.Sprintf("%0*d", width, n) for an int64: the sign comes first and the
\* zeros fill what is left of the width.
SprintfI64(width, n) ==
    IF n[1] >= 32768
    THEN <<45>> \o SprintfU64(width - 1, U64Sub(<<0, 0, 0, 0>>, n))
    ELSE SprintfU64(width, n)
\* bytes.Index: the 0-based index of the first occurrence of sep, or -1.
BytesIndex(s, sep) ==
    LET hits == {i \in 0..(Len(s) - Len(sep)) : SubSeq(s, i + 1, i + Len(sep)) = sep}
    IN IF hits = {} THEN -1 ELSE CHOOSE i \in hits : \A j \in hits : i <= j
\* go-nostr escapeString: the string in quotes (34), with quote, backslash
\* (92) and newline escaped.
EscapeByte(c) ==
    IF c = 34 \/ c = 92 THEN <<92, c>>
    ELSE IF c = 10 THEN <<92, 110>>
    ELSE <<c>>
\* The escaped bytes lo..hi of s, by halves.
RECURSIVE EscapeRange(_, _, _)
EscapeRange(s, lo, hi) ==
    IF lo > hi THEN <<>>
    ELSE IF lo = hi THEN EscapeByte(s[lo])
    ELSE LET mid == (lo + hi) \div 2
         IN EscapeRange(s, lo, mid) \o EscapeRange(s, mid + 1, hi)
escapeString(s) == <<34>> \o EscapeRange(s, 1, Len(s)) \o <<34>>
\* The elements of a list joined by commas, each rendered by r.
JoinFrom[items \in Seq(Seq(Byte)), acc \in Seq(Byte)] ==
    IF items = <<>> THEN acc
    ELSE JoinFrom[Tail(items), (IF acc = <<>> THEN <<>> ELSE acc \o <<44>>) \o Head(items)]
TagMarshal(tag) == <<91>> \o JoinFrom[[i \in 1..Len(tag) |-> escapeString(tag[i])], <<>>] \o <<93>>
TagsMarshal(tags) == <<91>> \o JoinFrom[[i \in 1..Len(tags) |-> TagMarshal(tags[i])], <<>>] \o <<93>>
\* Event.Serialize: [0,"pubkey",created_at,kind,[tags],"content"]
Serialize(evt) ==
    <<91, 48, 44, 34>> \o evt.pubkey \o <<34, 44>> \o Itoa[evt.created_at] \o <<44>>
    \o Itoa[evt.kind] \o <<44>> \o TagsMarshal(evt.tags) \o <<44>> \o escapeString(evt.content) \o <<93>>
\* crypto/sha256.Sum256: FIPS 180-4 padding, then the compression of each block.
Sha256Pad(msg) ==
    LET n == Len(msg)
        zeros == (119 - (n % 64)) % 64
    IN msg \o <<128>> \o [i \in 1..zeros |-> 0] \o [i \in 1..8 |-> LengthByte(n, i - 1)]
Sum256(msg) ==
    LET padded == Sha256Pad(msg)
    IN WriteOutput(CompleteBlocks[H0, padded, 0, Len(padded) \div 64])
\* encoding/hex
HexDigit(v) == IF v < 10 THEN 48 + v ELSE 87 + v
HexValue(c) == IF c \in 48..57 THEN c - 48 ELSE c - 87
HexEncode(bs) == [i \in 1..(2 * Len(bs)) |->
                    IF i % 2 = 1 THEN HexDigit(bs[(i + 1) \div 2] \div 16) ELSE HexDigit(bs[i \div 2] % 16)]
HexDecode(hs) == [i \in 1..(Len(hs) \div 2) |-> HexValue(hs[2 * i - 1]) * 16 + HexValue(hs[2 * i])]
\* Event.GetID: the hex digest of the serialization.
GetID(evt) == HexEncode(Sum256(Serialize(evt)))
\* nip13.Difficulty: leading zero bits of a 64-character hex id, else -1.
RECURSIVE difficultyBytes(_, _)
difficultyBytes(b, i) ==
    IF i > 32 THEN 0
    ELSE IF b[i] = 0 THEN 8 + difficultyBytes(b, i + 1)
    ELSE CHOOSE z \in 0..7 : b[i] \div 2^(7 - z) = 1
Difficulty(id) == IF Len(id) # 64 THEN -1 ELSE difficultyBytes(HexDecode(id), 1)
\* A faulty variant of nip13.Check that wants more than minDifficulty bits.
CheckStrict(id, minDifficulty) == Difficulty(id) > minDifficulty
\* nip13.Check: TRUE when there is no error.
Check(id, minDifficulty) == Difficulty(id) >= minDifficulty
\* nip13.CommittedDifficulty: the target of the first nonce tag when the id
\* reaches it, else 0.
CommittedDifficulty(evt) ==
    LET idx == {i \in 1..Len(evt.tags) : Len(evt.tags[i]) >= 2 /\ evt.tags[i][1] = NonceKey}
        nonceTag == evt.tags[CHOOSE i \in idx : \A j \in idx : i <= j]
    IN IF idx = {} \/ Len(nonceTag) < 3 THEN 0
       ELSE LET work == Difficulty(evt.ID)
                target == Atoi(nonceTag[3])
            IN IF target <= work THEN target ELSE 0

\* ---------------------------------------------------------------------
\* The host program (main): state
\* ---------------------------------------------------------------------
VARIABLES
    generation,         \* "current": main with the poclbm kernel; "legacy": main.go with mine.cl
    input,              \* the record read from stdin
    call,               \* a device function called on its own: arguments and result
    batchSizePower,     \* -batch-size, -1 for auto-detect
    device,             \* what the selected OpenCL device reports about itself
    pending,            \* per work-item of a running kernel: the writes it has yet to make
    arch,               \* the build target, which fixes out-of-range float conversions
    kernelMode,         \* "exact": lanes run the kernel; "faulty": lane outputs are arbitrary
    difficulty,         \* -difficulty
    batchSize,
    minRequiredDigits,
    maxRequiredDigits,
    event,              \* the event being mined
    pc,                 \* the host's position
    currentDigits,
    maxNonceValue,
    currentNonce,
    serialized,         \* the content of the input buffer
    nonceOffset,
    remaining,          \* the global work size of the last dispatch
    results,            \* the content of the results buffer
    lane,               \* the index i of the harvest loop
    found,
    foundNonce,
    foundEventID,
    output,             \* the event printed on stdout, or NoOutput
    fatal,              \* the reason the process died, or "" while it lives
    dispatched,         \* history: <<digits, base, count>> of the last two dispatched ranges
    batchesInWidth      \* history: dispatches made in the current width
vars == <<generation, input, call, batchSizePower, device, pending, arch, kernelMode, difficulty, batchSize, minRequiredDigits, maxRequiredDigits, event,
          pc, currentDigits, maxNonceValue, currentNonce, serialized, nonceOffset, remaining,
          results, lane, found, foundNonce, foundEventID, output, fatal, dispatched,
          batchesInWidth>>

NoOutput == [none |-> TRUE]
NoCall == [fn |-> "none"]
\* A device as main asks about it: compute units, the largest work-group,
\* the global memory in MiB, and whether its type has the GPU bit.
SmallDevice == [MaxComputeUnits |-> 8, MaxWorkGroupSize |-> 256, GlobalMemSize |-> 1024, isGPU |-> TRUE]
Zero64 == <<0, 0, 0, 0>>
MinInt64 == <<32768, 0, 0, 0>>
MaxInt64 == <<32767, 65535, 65535, 65535>>
I64Le(a, b) == ~I64Lt(b, a)

\* int(math.Ceil(math.Log10(x))) for an integer x >= 1: the least p with 10^p >= x.
RECURSIVE CeilLog10From(_, _, _)
CeilLog10From(x, p, pow) == IF pow >= x THEN p ELSE CeilLog10From(x, p + 1, pow * 10)
CeilLog10(x) == CeilLog10From(x, 0, 1)
\* int(math.Ceil(math.Log10(math.Pow(2, d)))) + 2, at least 10.
MaxRequiredDigits(d) ==
    LET digits == (d * 30103 + 99999) \div 100000 + 2
    IN IF digits < 10 THEN 10 ELSE digits
\* A faulty variant of the initial width that takes the digits of the batch
\* size without the one more.
MinRequiredDigitsOfBatch(size) == IF CeilLog10(size) < 5 THEN 5 ELSE CeilLog10(size)
\* int(math.Ceil(math.Log10(float64(batchSize)))) + 1, at least 5.
MinRequiredDigits(size) ==
    LET digits == CeilLog10(size) + 1
    IN IF digits < 5 THEN 5 ELSE digits
\* int64(math.Pow(10, e)): exact while 10^e fits, and what the build target
\* makes of an out-of-range conversion otherwise.
Int64Pow10(e, target) ==
    IF e <= 18 THEN TimesTen[U64FromNat(1), 0, e]
    ELSE IF target = "amd64" THEN MinInt64 ELSE MaxInt64
\* A faulty variant of the tag filter of main that keeps every tag.
FilterKeepAll(tags) == tags
\* The tag filter of main: tags that are non-empty and not a nonce tag.
FilterMain(tags) == SelectSeq(tags, LAMBDA tag : Len(tag) > 0 /\ tag[1] # NonceKey)
\* The tag filter of validateNonce: tags that are empty or not a nonce tag.
FilterValidate(tags) == SelectSeq(tags, LAMBDA tag : Len(tag) = 0 \/ tag[1] # NonceKey)

\* ---------------------------------------------------------------------
\* Bounds and the inputs of a run
\* ---------------------------------------------------------------------
\* Explicit dispatches explored per digit width before the run is cut; the
\* last batch of a width is always explored.
MaxBatchesPerWidth == 1
\* Length of the content of the oversized event.
LargeContent == 2030

EvSmall == [pubkey |-> <<>>, created_at |-> 0, kind |-> 1, tags |-> <<>>, content |-> <<>>, ID |-> <<>>]
EvTagged == [pubkey |-> <<97, 98>>, created_at |-> 17, kind |-> 1,
             tags |-> << <<NonceKey, <<49>>, <<48>>>>, << <<116>>, <<120>> >>,
                         <<NonceKey, <<53>>, <<57>>>>, <<>>, << <<101>>, <<121>> >> >>,
             content |-> <<104, 105>>, ID |-> <<48, 48>>]
\* A record whose created_at reads as the placeholder of width 5.
EvEarly == [EvSmall EXCEPT !.created_at = 10000]
EvLarge == [EvSmall EXCEPT !.content = [i \in 1..LargeContent |-> 97]]
\* A record whose serialization with a five-digit nonce tag has 55 bytes:
\* with the 0x80 byte and the 8 length bytes exactly one 64-byte block.
EvBoundary == [EvSmall EXCEPT !.content = [i \in 1..18 |-> 97]]
Archs == {"amd64", "arm64"}
\* batchSize = int(math.Pow(10, power)) for the powers 0 and 1 of the flag.
BatchSizes == {1, 10}
\* The runs explored: an event on stdin, the flags, the device and the build.
Scenarios ==
    [generation : {"current"}, event : {EvSmall, EvTagged}, difficulty : {0, 1, 2},
     batchSize : BatchSizes, kernelMode : {"exact"}, arch : {"amd64"}]
    \cup [generation : {"current", "legacy"}, event : {EvLarge}, difficulty : {0},
          batchSize : BatchSizes, kernelMode : {"exact"}, arch : {"amd64"}]
    \cup [generation : {"current"}, event : {EvSmall, EvTagged}, difficulty : {0, 2},
          batchSize : BatchSizes, kernelMode : {"faulty"}, arch : {"amd64"}]
    \cup [generation : {"current"}, event : {EvSmall}, difficulty : {54},
          batchSize : BatchSizes, kernelMode : {"faulty"}, arch : Archs]
    \cup [generation : {"legacy"}, event : {EvSmall, EvTagged}, difficulty : {0, 2},
          batchSize : BatchSizes, kernelMode : {"exact", "faulty"}, arch : {"amd64"}]
    \cup [generation : {"current", "legacy"}, event : {EvEarly}, difficulty : {0},
          batchSize : {1}, kernelMode : {"exact"}, arch : {"amd64"}]
    \cup [generation : {"current"}, event : {EvBoundary}, difficulty : {1},
          batchSize : BatchSizes, kernelMode : {"exact"}, arch : {"amd64"}]
\* What the results buffer from CreateEmptyBuffer holds before any lane has
\* written to it: left-over memory, here words that read as a hit of lane 0.
Garbage(n) == [i \in 1..n |-> 0]
\* resultSize: bytes per work item in the results buffer of main.go.
resultSize == 41

Init ==
    /\ \E sc \in Scenarios :
          /\ generation = sc.generation
          /\ arch = sc.arch
          /\ kernelMode = sc.kernelMode
          /\ difficulty = sc.difficulty
          /\ batchSize = sc.batchSize
          /\ input = sc.event
    /\ call = NoCall
    /\ batchSizePower = CeilLog10(batchSize)
    /\ device = SmallDevice
    /\ event = [input EXCEPT !.tags = FilterMain(input.tags)]
    /\ minRequiredDigits = MinRequiredDigits(batchSize)
    /\ maxRequiredDigits = MaxRequiredDigits(difficulty)
    /\ pc = "Sizing"
    /\ currentDigits = minRequiredDigits
    /\ maxNonceValue = Zero64
    /\ currentNonce = Zero64
    /\ serialized = <<>>
    /\ nonceOffset = 0
    /\ remaining = 0
    /\ results = Garbage(IF generation = "legacy" THEN batchSize * resultSize ELSE batchSize)
    /\ pending = <<>>
    /\ lane = 0
    /\ found = FALSE
    /\ foundNonce = Zero64
    /\ foundEventID = <<>>
    /\ output = NoOutput
    /\ fatal = ""
    /\ dispatched = <<>>
    /\ batchesInWidth = 0

\* A faulty variant of the outer loop head that makes the serialization and
\* the nonce offset once and keeps them for the later widths.
SizingKeepsBuffer ==
    /\ pc = "Sizing"
    /\ currentDigits <= maxRequiredDigits /\ ~found
    /\ LET baseNonceValue == Int64Pow10(currentDigits - 1, arch)
           noncePlaceholder == SprintfI64(currentDigits, baseNonceValue)
           tagged == [event EXCEPT !.tags = Append(FilterMain(event.tags),
                                                <<NonceKey, noncePlaceholder, Itoa[difficulty]>>)]
           bytes == Serialize(tagged)
       IN /\ maxNonceValue' = U64Sub(Int64Pow10(currentDigits, arch), U64FromNat(1))
          /\ event' = tagged
          /\ serialized' = IF serialized = <<>> THEN bytes ELSE serialized
          /\ nonceOffset' = IF serialized = <<>> THEN BytesIndex(bytes, noncePlaceholder)
                            ELSE nonceOffset
          /\ currentNonce' = baseNonceValue
    /\ pc' = "Dispatch"
    /\ batchesInWidth' = 0
    /\ UNCHANGED <<generation, input, call, batchSizePower, device, pending, arch, kernelMode,
                   difficulty, batchSize, minRequiredDigits, maxRequiredDigits, currentDigits,
                   remaining, results, lane, found, foundNonce, foundEventID, output, fatal,
                   dispatched>>
\* The outer loop head with a width left to try: the placeholder, the nonce
\* tag, the serialization, the nonce offset and the input buffer.
Sizing ==
    /\ pc = "Sizing"
    /\ currentDigits <= maxRequiredDigits /\ ~found
    /\ LET baseNonceValue == Int64Pow10(currentDigits - 1, arch)
           noncePlaceholder == SprintfI64(currentDigits, baseNonceValue)
           tagged == [event EXCEPT !.tags = Append(FilterMain(event.tags),
                                                <<NonceKey, noncePlaceholder, Itoa[difficulty]>>)]
           bytes == Serialize(tagged)
           offset == BytesIndex(bytes, noncePlaceholder)
       IN /\ maxNonceValue' = U64Sub(Int64Pow10(currentDigits, arch), U64FromNat(1))
          /\ event' = tagged
          /\ serialized' = bytes
          /\ nonceOffset' = offset
          /\ currentNonce' = baseNonceValue
          /\ IF offset = -1
             THEN pc' = "Fatal" /\ fatal' = "Could not find nonce placeholder"
             ELSE pc' = "Dispatch" /\ fatal' = fatal
    /\ batchesInWidth' = 0
    /\ UNCHANGED <<generation, input, call, batchSizePower, device, pending, arch, kernelMode, difficulty, batchSize, minRequiredDigits, maxRequiredDigits,
                   currentDigits, remaining, results, lane, found, foundNonce, foundEventID,
                   output, dispatched>>

\* A faulty variant of the argument binding with the length and the nonce
\* offset taking each other's place.
KernelArgsSwapped ==
    [base_serialized |-> serialized,
     serialized_length |-> nonceOffset,
     nonce_offset |-> Len(serialized),
     difficulty |-> difficulty,
     base_nonce_low |-> <<currentNonce[3], currentNonce[4]>>,
     base_nonce_high |-> <<currentNonce[1], currentNonce[2]>>,
     num_digits |-> currentDigits]
\* The kernel arguments the host sets before a dispatch.
KernelArgs ==
    [base_serialized |-> serialized,
     serialized_length |-> Len(serialized),
     nonce_offset |-> nonceOffset,
     difficulty |-> difficulty,
     base_nonce_low |-> <<currentNonce[3], currentNonce[4]>>,
     base_nonce_high |-> <<currentNonce[1], currentNonce[2]>>,
     num_digits |-> currentDigits]
\* The values a kernel may be given as arguments.
KernelArgSet ==
    [base_serialized : Seq(Byte), serialized_length : Int, nonce_offset : Int, difficulty : Int,
     base_nonce_low : Word, base_nonce_high : Word, num_digits : Int]
\* A buffer after a sequence of <<index, value>> writes, in order.
ApplyWrites[buf \in Seq(Int), ws \in Seq(Int \X Int)] ==
    IF ws = <<>> THEN buf
    ELSE ApplyWrites[[buf EXCEPT ![ws[1][1] + 1] = ws[1][2]], Tail(ws)]
\* The results buffer after the lanes g .. n - 1 of the poclbm kernel have
\* run one after the other.
RunLanes[buf \in Seq(Int), a \in KernelArgSet, g \in Nat, n \in Nat] ==
    IF g >= n THEN buf
    ELSE RunLanes[ApplyWrites[buf, mine_nonce_poclbm(a, g)], a, g + 1, n]
RunKernel(buf, a, n) == RunLanes[buf, a, 0, n]

\* The kernel arguments main.go sets: the base nonce is cut to 32 bits.
LegacyKernelArgs ==
    [base_serialized |-> serialized,
     serialized_length |-> Len(serialized),
     nonce_offset |-> nonceOffset,
     difficulty |-> difficulty,
     base_nonce |-> <<currentNonce[3], currentNonce[4]>>,
     num_digits |-> currentDigits]
LegacyKernelArgSet ==
    [base_serialized : Seq(Byte), serialized_length : Int, nonce_offset : Int, difficulty : Int,
     base_nonce : Word, num_digits : Int]
\* The results buffer after the lanes g .. n - 1 of mine.cl have run one
\* after the other.
LegacyRunLanes[buf \in Seq(Int), a \in LegacyKernelArgSet, g \in Nat, n \in Nat] ==
    IF g >= n THEN buf
    ELSE LegacyRunLanes[ApplyWrites[buf, mine_nonce(a, g)], a, g + 1, n]
LegacyRunKernel(buf, a, n) == LegacyRunLanes[buf, a, 0, n]
\* What a faulty device may leave in the first n result slots: no hit at
\* all, a hit of lane 0 under its own or a foreign index, or hits of lane 0
\* and of the last lane; every other lane reports no hit.
FaultShift == 1
FaultyResults(buf, n) ==
    {[i \in 1..Len(buf) |->
        IF i = 1 THEN v[1]
        ELSE IF i = n THEN v[2]
        ELSE IF i < n THEN -1 ELSE buf[i]] :
     v \in {<<-1, -1>>, <<0, -1>>, <<FaultShift, -1>>, <<0, n - 1>>}}
\* What a faulty device may leave in the first n slots of the 41-byte layout:
\* no hit at all; lane 0 or the last lane flagged with its nonce and its true
\* digest, whatever the difficulty; lane 0 flagged with its nonce and a zero
\* digest; lane 0 flagged with the digest of its nonce and a shifted nonce.
LegacyFaultyPatterns(none, first, last, shifted) ==
    {none, first, last,
     [i \in 1..Len(none) |-> IF i \in 10..resultSize THEN 0 ELSE first[i]],
     [i \in 1..Len(none) |-> IF i \in 2..9 THEN shifted[i - 1] ELSE first[i]]}
LegacyFaultyResults(buf, n) ==
    LET none == ApplyWrites[buf, [g \in 1..n |-> <<(g - 1) * resultSize, 0>>]]
        easy == [LegacyKernelArgs EXCEPT !.difficulty = 0]
    IN LegacyFaultyPatterns(none,
                            ApplyWrites[none, mine_nonce(easy, 0)],
                            ApplyWrites[none, mine_nonce(easy, n - 1)],
                            BigEndian8(U64Add(currentNonce, U64FromNat(FaultShift))))
\* int(maxNonceValue - currentNonce + 1), cut to batchSize; 0 or -1 when the
\* difference is not positive.
Remaining ==
    LET diff == U64Add(U64Sub(maxNonceValue, currentNonce), U64FromNat(1))
    IN IF I64Lt(U64FromNat(batchSize), diff) THEN batchSize
       ELSE IF diff[1] >= 32768 THEN -1
       ELSE diff[3] * 65536 + diff[4]
\* The history of dispatched ranges with one more range: the last two.
Record(range) == IF dispatched = <<>> THEN <<range>> ELSE <<dispatched[Len(dispatched)], range>>
\* The nonces of the width not yet dispatched, maxNonceValue - currentNonce + 1.
Undispatched == U64Add(U64Sub(maxNonceValue, currentNonce), U64FromNat(1))
\* The next batch is the last of its width.
LastBatch == I64Le(Undispatched, U64FromNat(batchSize))

\* One iteration of the batch loop up to the blocking read: the work size,
\* the kernel arguments, the dispatch and the read of the results.
Dispatch ==
    /\ pc = "Dispatch"
    /\ I64Le(currentNonce, maxNonceValue) /\ ~found
    /\ batchesInWidth < MaxBatchesPerWidth \/ LastBatch
    /\ remaining' = Remaining
    /\ IF remaining' <= 0
       THEN /\ pc' = "Fatal" /\ fatal' = "Failed to enqueue kernel"
            /\ UNCHANGED <<results, dispatched, batchesInWidth>>
       ELSE /\ pc' = "Harvest" /\ fatal' = fatal
            /\ dispatched' = Record(<<currentDigits, currentNonce, U64FromNat(remaining')>>)
            /\ batchesInWidth' = batchesInWidth + 1
            /\ IF generation = "current"
               THEN IF kernelMode = "exact"
                    THEN results' = RunKernel(results, KernelArgs, remaining')
                    ELSE results' \in FaultyResults(results, remaining')
               ELSE IF kernelMode = "exact"
                    THEN results' = LegacyRunKernel(results, LegacyKernelArgs, remaining')
                    ELSE results' \in LegacyFaultyResults(results, remaining')
    /\ lane' = 0
    /\ UNCHANGED <<generation, input, call, batchSizePower, device, pending, arch, kernelMode, difficulty, batchSize, minRequiredDigits, maxRequiredDigits,
                   event, currentDigits, maxNonceValue, currentNonce, serialized, nonceOffset,
                   found, foundNonce, foundEventID, output>>

\* A faulty variant of validateNonce that accepts every candidate.
validateNonceAcceptAll(candidateNonce, ev, diff, numDigits) == TRUE
\* A faulty variant of the verdict that wants the digest to have exactly the
\* required difficulty.
validateDifficultiesExact(eventIDHex, diff, actualHashDifficulty, committedDiff) ==
    actualHashDifficulty = diff /\ committedDiff = diff
\* validateNonce: the host's recomputation of a candidate.
\* The verdict of validateNonce on the difficulties it has computed.
validateDifficulties(eventIDHex, diff, actualHashDifficulty, committedDiff) ==
    IF ~Check(eventIDHex, diff) THEN FALSE
    ELSE IF actualHashDifficulty < diff THEN FALSE
    ELSE IF committedDiff = 0 /\ actualHashDifficulty >= diff THEN TRUE
    ELSE IF committedDiff # diff /\ committedDiff # 0 THEN FALSE
    ELSE TRUE
\* validateNonce from the computed event ID on.
validateEventID(cleared, eventIDHex, diff) ==
    validateDifficulties(eventIDHex, diff, Difficulty(eventIDHex),
                         CommittedDifficulty([cleared EXCEPT !.ID = eventIDHex]))
validateNonce(candidateNonce, ev, diff, numDigits) ==
    LET nonceStr == SprintfU64(numDigits, candidateNonce)
        testEvent == [ev EXCEPT !.ID = <<>>,
                         !.tags = Append(FilterValidate(ev.tags), <<NonceKey, nonceStr, Itoa[diff]>>)]
    IN validateEventID(testEvent, GetID(testEvent), diff)
\* The candidate of the lane under the harvest index.
CandidateNonce == U64Add(currentNonce, U64FromNat(results[lane + 1]))
HostUnchanged == <<generation, input, call, batchSizePower, device, pending, arch, kernelMode, difficulty, batchSize, minRequiredDigits, maxRequiredDigits,
                   event, currentDigits, maxNonceValue, serialized, nonceOffset, remaining,
                   results, output, fatal, dispatched, batchesInWidth>>
\* A faulty variant of the harvest loop that passes over a slot unread.
HarvestSkip ==
    /\ generation = "current"
    /\ pc = "Harvest" /\ lane < remaining
    /\ lane' = lane + 1
    /\ UNCHANGED <<HostUnchanged, pc, currentNonce, found, foundNonce, foundEventID>>
\* A faulty variant of the harvest loop that dies on a rejected hit.
HarvestRejectFatal ==
    /\ generation = "current"
    /\ pc = "Harvest" /\ lane < remaining
    /\ results[lane + 1] >= 0
    /\ ~validateNonce(CandidateNonce, event, difficulty, currentDigits)
    /\ pc' = "Fatal"
    /\ fatal' = "Invalid nonce"
    /\ UNCHANGED <<generation, input, call, batchSizePower, device, pending, arch, kernelMode, difficulty, batchSize, minRequiredDigits,
                   maxRequiredDigits, event, currentDigits, maxNonceValue, currentNonce, serialized,
                   nonceOffset, remaining, results, lane, found, foundNonce, foundEventID, output,
                   dispatched, batchesInWidth>>
\* A faulty variant of the end of the harvest loop that does not advance.
HarvestDoneStalled ==
    /\ pc = "Harvest" /\ lane >= remaining
    /\ pc' = "Dispatch"
    /\ UNCHANGED <<HostUnchanged, lane, currentNonce, found, foundNonce, foundEventID>>
\* Harvest loop, a slot that reports no hit.
HarvestMiss ==
    /\ generation = "current"
    /\ pc = "Harvest" /\ lane < remaining
    /\ results[lane + 1] < 0
    /\ lane' = lane + 1
    /\ UNCHANGED <<HostUnchanged, pc, currentNonce, found, foundNonce, foundEventID>>
\* Harvest loop, a reported hit that validateNonce rejects.
HarvestReject ==
    /\ generation = "current"
    /\ pc = "Harvest" /\ lane < remaining
    /\ results[lane + 1] >= 0
    /\ ~validateNonce(CandidateNonce, event, difficulty, currentDigits)
    /\ lane' = lane + 1
    /\ UNCHANGED <<HostUnchanged, pc, currentNonce, found, foundNonce, foundEventID>>
\* Harvest loop, a reported hit that validateNonce accepts.
HarvestAccept ==
    /\ generation = "current"
    /\ pc = "Harvest" /\ lane < remaining
    /\ results[lane + 1] >= 0
    /\ validateNonce(CandidateNonce, event, difficulty, currentDigits)
    /\ LET nonceStr == SprintfU64(currentDigits, CandidateNonce)
           testEvent == [event EXCEPT !.tags = Append(FilterValidate(event.tags),
                                                   <<NonceKey, nonceStr, Itoa[difficulty]>>)]
       IN foundEventID' = HexDecode(GetID(testEvent))
    /\ foundNonce' = CandidateNonce
    /\ found' = TRUE
    /\ pc' = "Final"
    /\ UNCHANGED <<HostUnchanged, lane, currentNonce>>
\* The 64-bit value of eight bytes, most significant first.
BigEndianUint64(b) == [i \in 1..4 |-> b[2 * i - 1] * 256 + b[2 * i]]
\* Harvest loop of main.go, a slot whose flag is not 1.
LegacyHarvestMiss ==
    /\ generation = "legacy"
    /\ pc = "Harvest" /\ lane < remaining
    /\ results[lane * resultSize + 1] # 1
    /\ lane' = lane + 1
    /\ UNCHANGED <<HostUnchanged, pc, currentNonce, found, foundNonce, foundEventID>>
\* Harvest loop of main.go, a slot whose flag is 1: the nonce and the id are
\* taken from the slot and the loops end.
LegacyHarvestHit ==
    /\ generation = "legacy"
    /\ pc = "Harvest" /\ lane < remaining
    /\ results[lane * resultSize + 1] = 1
    /\ foundNonce' = BigEndianUint64(SubSeq(results, lane * resultSize + 2, lane * resultSize + 9))
    /\ foundEventID' = SubSeq(results, lane * resultSize + 10, lane * resultSize + 41)
    /\ found' = TRUE
    /\ pc' = "Final"
    /\ UNCHANGED <<HostUnchanged, lane, currentNonce>>
\* End of the harvest loop without an accepted candidate.
HarvestDone ==
    /\ pc = "Harvest" /\ lane >= remaining
    /\ currentNonce' = U64Add(currentNonce, U64FromNat(remaining))
    /\ pc' = "Dispatch"
    /\ UNCHANGED <<HostUnchanged, lane, found, foundNonce, foundEventID>>
\* The batch loop ends with the width exhausted: on to the next width.
NextWidth ==
    /\ pc = "Dispatch"
    /\ ~I64Le(currentNonce, maxNonceValue) /\ ~found
    /\ currentDigits' = currentDigits + 1
    /\ pc' = "Sizing"
    /\ UNCHANGED <<generation, input, call, batchSizePower, device, pending, arch, kernelMode, difficulty, batchSize, minRequiredDigits, maxRequiredDigits,
                   event, maxNonceValue, currentNonce, serialized, nonceOffset, remaining,
                   results, lane, found, foundNonce, foundEventID, output, fatal, dispatched,
                   batchesInWidth>>
\* The width loop ends without a nonce.
Exhausted ==
    /\ pc = "Sizing"
    /\ currentDigits > maxRequiredDigits /\ ~found
    /\ pc' = "Fatal"
    /\ fatal' = "Could not find valid nonce"
    /\ UNCHANGED <<generation, input, call, batchSizePower, device, pending, arch, kernelMode, difficulty, batchSize, minRequiredDigits, maxRequiredDigits,
                   event, currentDigits, maxNonceValue, currentNonce, serialized, nonceOffset,
                   remaining, results, lane, found, foundNonce, foundEventID, output, dispatched,
                   batchesInWidth>>

\* x with its last p decimal digits cleared: the largest multiple of 10^p
\* that is at most x.
DivPow10[x \in U64, p \in Nat] == IF p = 0 THEN x ELSE DivPow10[U64DivMod10(x).q, p - 1]
FloorToPow10(x, p) == TimesTen[DivPow10[x, p], 0, p]
\* Every lane of every batch is certain to report no hit: the serialization
\* is over the kernel's 2048 bytes, or the device is faulty and silent.
Silent == Len(serialized) > 2048 \/ kernelMode = "faulty"
\* The nonces covered by the full batches that come before the last batch
\* of the width.
SilentRun ==
    LET p == CeilLog10(batchSize)
        full == FloorToPow10(Undispatched, p)
    IN IF full = Undispatched THEN U64Sub(full, U64FromNat(batchSize)) ELSE full
\* As many iterations of the batch loop as lead to the last batch of the
\* width, each a full batch in which every lane reports no hit.
DispatchSilent ==
    /\ pc = "Dispatch"
    /\ I64Le(currentNonce, maxNonceValue) /\ ~found
    /\ Silent
    /\ I64Lt(Zero64, SilentRun)
    /\ remaining' = batchSize
    /\ results' = IF generation = "current" THEN [i \in 1..batchSize |-> -1]
                  ELSE ApplyWrites[results, [g \in 1..batchSize |-> <<(g - 1) * resultSize, 0>>]]
    /\ lane' = batchSize
    /\ currentNonce' = U64Add(currentNonce, SilentRun)
    /\ dispatched' = Record(<<currentDigits, currentNonce, SilentRun>>)
    /\ batchesInWidth' = batchesInWidth + 1
    /\ UNCHANGED <<generation, input, call, batchSizePower, device, pending, arch, kernelMode, difficulty, batchSize, minRequiredDigits, maxRequiredDigits,
                   event, pc, currentDigits, maxNonceValue, serialized, nonceOffset,
                   found, foundNonce, foundEventID, output, fatal>>

\* A faulty variant of the digit count that counts one digit too many.
FoundNonceDigitsOneMore(n) == {Len(NaturalDigits[n, <<>>]) + 1}
\* int(math.Ceil(math.Log10(float64(n) + 1))): the number of decimal digits
\* of n, or one less where the floating-point logarithm rounds down.
FoundNonceDigits(n) ==
    LET digits == IF n = Zero64 THEN 0 ELSE Len(NaturalDigits[n, <<>>])
    IN {digits, IF digits = 0 THEN 0 ELSE digits - 1}
\* The tags with the first nonce tag replaced.
ReplaceNonceTag(tags, tag) ==
    LET idx == {i \in 1..Len(tags) : Len(tags[i]) > 0 /\ tags[i][1] = NonceKey}
    IN IF idx = {} THEN tags
       ELSE [tags EXCEPT ![CHOOSE i \in idx : \A j \in idx : i <= j] = tag]
\* After the loops, with a nonce: the final nonce tag, the id, the last
\* check and the output.
Finalize ==
    /\ generation = "current"
    /\ pc = "Final" /\ found
    /\ \E computed \in FoundNonceDigits(foundNonce) :
         LET foundNonceDigits == IF computed < minRequiredDigits THEN minRequiredDigits ELSE computed
             nonceStr == SprintfU64(foundNonceDigits, foundNonce)
             eventIDHex == HexEncode(foundEventID)
             final == [event EXCEPT
                          !.tags = ReplaceNonceTag(event.tags, <<NonceKey, nonceStr, Itoa[difficulty]>>),
                          !.ID = eventIDHex]
             expectedID == GetID(final)
         IN /\ event' = final
            /\ IF expectedID # eventIDHex
               THEN pc' = "Fatal" /\ fatal' = "Event ID mismatch" /\ output' = output
               ELSE pc' = "Done" /\ fatal' = fatal /\ output' = final
    /\ UNCHANGED <<generation, input, call, batchSizePower, device, pending, arch, kernelMode, difficulty, batchSize, minRequiredDigits, maxRequiredDigits,
                   currentDigits, maxNonceValue, currentNonce, serialized, nonceOffset, remaining,
                   results, lane, found, foundNonce, foundEventID, dispatched, batchesInWidth>>

\* main.go after the loops, with a nonce: the final nonce tag, the id taken
\* from the device, the three checks and the output.
LegacyFinalize ==
    /\ generation = "legacy"
    /\ pc = "Final" /\ found
    /\ \E computed \in FoundNonceDigits(foundNonce) :
         LET foundNonceDigits == IF computed < minRequiredDigits THEN minRequiredDigits ELSE computed
             nonceStr == SprintfU64(foundNonceDigits, foundNonce)
             eventIDHex == HexEncode(foundEventID)
             final == [event EXCEPT
                          !.tags = ReplaceNonceTag(event.tags, <<NonceKey, nonceStr, Itoa[difficulty]>>),
                          !.ID = eventIDHex]
             expectedID == GetID(final)
         IN /\ event' = final
            /\ IF expectedID # eventIDHex
               THEN pc' = "Fatal" /\ fatal' = "Event ID mismatch" /\ output' = output
               ELSE IF ~Check(eventIDHex, difficulty)
               THEN pc' = "Fatal" /\ fatal' = "NIP-13 validation failed" /\ output' = output
               ELSE IF CommittedDifficulty(final) # difficulty
               THEN pc' = "Fatal" /\ fatal' = "Committed difficulty mismatch" /\ output' = output
               ELSE pc' = "Done" /\ fatal' = fatal /\ output' = final
    /\ UNCHANGED <<generation, input, call, batchSizePower, device, pending, arch, kernelMode, difficulty, batchSize, minRequiredDigits,
                   maxRequiredDigits, currentDigits, maxNonceValue, currentNonce, serialized,
                   nonceOffset, remaining, results, lane, found, foundNonce, foundEventID,
                   dispatched, batchesInWidth>>

Next == Sizing \/ Dispatch \/ DispatchSilent \/ HarvestMiss \/ HarvestReject \/ HarvestAccept
        \/ HarvestDone \/ NextWidth \/ Exhausted \/ Finalize
        \/ LegacyHarvestMiss \/ LegacyHarvestHit \/ LegacyFinalize
Spec == Init /\ [][Next]_vars

\* ---------------------------------------------------------------------
\* One kernel dispatch, work-item by work-item
\* ---------------------------------------------------------------------
\* Work-items of one dispatch explored.
MaxLanes == 2
\* The event of a kernel run: a nonce tag of w characters.
KernelEvent(ev, w) ==
    [ev EXCEPT !.tags = <<<<NonceKey, SprintfU64(w, U64FromNat(1)), Itoa[0]>>>>]
\* The dispatches explored: the kernel, the event, the arguments.  A base
\* nonce of 2^32 - 1 reaches mine.cl as the int -1.
KernelRuns ==
    [generation : {"legacy"}, event : {EvSmall}, num_digits : {5}, difficulty : {0},
     base : {U64FromNat(99998), U64FromNat(99999)}]
    \cup [generation : {"legacy", "current"}, event : {EvSmall}, num_digits : {5},
          difficulty : {2}, base : {U64FromNat(10005)}]
    \cup [generation : {"legacy"}, event : {EvSmall}, num_digits : {20, 22}, difficulty : {0},
          base : {<<0, 0, 65535, 65535>>}]
    \cup [generation : {"legacy", "current"}, event : {EvSmall}, num_digits : {23},
          difficulty : {0}, base : {U64FromNat(5)}]
    \cup [generation : {"legacy", "current"}, event : {EvLarge}, num_digits : {5},
          difficulty : {0}, base : {U64FromNat(10000)}]
    \cup [generation : {"current"}, event : {EvSmall}, num_digits : {5}, difficulty : {0},
          base : {U64FromNat(10000), U64FromNat(99999)}]
    \cup [generation : {"current"}, event : {EvSmall}, num_digits : {19}, difficulty : {0},
          base : {U64Sub(TimesTen[U64FromNat(1), 0, 19], U64FromNat(1))}]
    \cup [generation : {"current"}, event : {EvSmall}, num_digits : {20}, difficulty : {0},
          base : {<<65535, 65535, 65535, 65535>>}]
    \cup [generation : {"legacy", "current"}, event : {EvBoundary}, num_digits : {5},
          difficulty : {1}, base : {U64FromNat(10000)}]
    \cup [generation : {"legacy"}, event : {EvSmall}, num_digits : {10}, difficulty : {0},
          base : {<<0, 0, 32768, 0>>}]
    \cup [generation : {"legacy"}, event : {EvSmall}, num_digits : {11}, difficulty : {0},
          base : {TimesTen[U64FromNat(1), 0, 10]}]
\* What the results buffer holds before the dispatch.
Untouched(n) == [i \in 1..n |-> 170]

InitKernel ==
    /\ \E run \in KernelRuns :
          /\ generation = run.generation
          /\ difficulty = run.difficulty
          /\ currentDigits = run.num_digits
          /\ currentNonce = run.base
          /\ input = run.event
          /\ event = KernelEvent(run.event, run.num_digits)
    /\ call = NoCall
    /\ batchSizePower = 1
    /\ device = SmallDevice
    /\ arch = "amd64"
    /\ kernelMode = "exact"
    /\ batchSize = MaxLanes
    /\ minRequiredDigits = MinRequiredDigits(batchSize)
    /\ maxRequiredDigits = MaxRequiredDigits(difficulty)
    /\ pc = "Kernel"
    /\ maxNonceValue = Zero64
    /\ serialized = Serialize(event)
    /\ nonceOffset = BytesIndex(serialized, event.tags[1][2])
    /\ remaining = MaxLanes
    /\ results = Untouched(IF generation = "legacy" THEN remaining * resultSize ELSE remaining)
    /\ pending = [g \in 1..remaining |-> [started |-> FALSE, stores |-> <<>>]]
    /\ lane = 0
    /\ found = FALSE
    /\ foundNonce = Zero64
    /\ foundEventID = <<>>
    /\ output = NoOutput
    /\ fatal = ""
    /\ dispatched = <<>>
    /\ batchesInWidth = 0

\* A faulty variant of the kernels' stores: every work-item stores its
\* index to the first slot.
StoresToFirstSlot(global_id) == <<[buf |-> "results", index |-> 0, value |-> global_id]>>
\* The stores work-item global_id makes to global memory, in program order.
\* Both kernels store to the results buffer only; the input is const.
ResultStores(ws) == [i \in 1..Len(ws) |-> [buf |-> "results", index |-> ws[i][1], value |-> ws[i][2]]]
WorkItemStores(global_id) ==
    ResultStores(IF generation = "legacy" THEN mine_nonce(LegacyKernelArgs, global_id)
                 ELSE mine_nonce_poclbm(KernelArgs, global_id))
KernelUnchanged == <<generation, input, call, batchSizePower, device, arch, kernelMode, difficulty, batchSize, minRequiredDigits,
                     maxRequiredDigits, event, pc, currentDigits, maxNonceValue, currentNonce,
                     nonceOffset, remaining, lane, found, foundNonce, foundEventID, output, fatal,
                     dispatched, batchesInWidth>>
\* A work-item runs up to its first store to global memory: it reads its
\* arguments and the input and computes in private memory.
WorkItemBegin ==
    /\ pc = "Kernel"
    /\ \E g \in 0..(remaining - 1) :
          /\ ~pending[g + 1].started
          /\ pending' = [pending EXCEPT ![g + 1] = [started |-> TRUE, stores |-> WorkItemStores(g)]]
    /\ UNCHANGED <<KernelUnchanged, serialized, results>>
\* A work-item makes its next store.
WorkItemStore ==
    /\ pc = "Kernel"
    /\ \E g \in 0..(remaining - 1) :
          /\ pending[g + 1].started /\ pending[g + 1].stores # <<>>
          /\ LET st == Head(pending[g + 1].stores)
             IN IF st.buf = "results"
                THEN /\ results' = [results EXCEPT ![st.index + 1] = st.value]
                     /\ UNCHANGED serialized
                ELSE /\ serialized' = [serialized EXCEPT ![st.index + 1] = st.value]
                     /\ UNCHANGED results
          /\ pending' = [pending EXCEPT ![g + 1].stores = Tail(pending[g + 1].stores)]
    /\ UNCHANGED KernelUnchanged

NextKernel == WorkItemBegin \/ WorkItemStore
SpecKernel == InitKernel /\ [][NextKernel]_vars

\* ---------------------------------------------------------------------
\* Device functions called on their own
\* ---------------------------------------------------------------------
\* Inputs of every length up to MaxMessageLen and of the lengths around the
\* 2048-byte limit, and the test vectors "", "abc" and the 56-byte
\* "abcdbcdecdefdefgefghfghighijhijkijkljklmklmnlmnomnopnopq".
MaxMessageLen == 130
LongLengths == {2047, 2048}
Message(len) == <<>> \o [i \in 1..len |-> (i * 7 + len) % 251]
Abc == <<97, 98, 99>>
TwoBlockMessage ==
    <<97, 98, 99, 100, 98, 99, 100, 101, 99, 100, 101, 102, 100, 101, 102, 103,
      101, 102, 103, 104, 102, 103, 104, 105, 103, 104, 105, 106, 104, 105, 106, 107,
      105, 106, 107, 108, 106, 107, 108, 109, 107, 108, 109, 110, 108, 109, 110, 111,
      109, 110, 111, 112, 110, 111, 112, 113>>
TestVectors == {<<>>, Abc, TwoBlockMessage}
Messages == {Message(len) : len \in (0..MaxMessageLen) \cup LongLengths} \cup TestVectors
\* A 32-byte digest of nbytes zero bytes, then a byte of nbits zero bits, a
\* one and the low bits of fill, then bytes of fill.
PlantedDigest(nbytes, nbits, fill) ==
    <<>> \o [i \in 1..32 |->
                IF i <= nbytes THEN 0
                ELSE IF i = nbytes + 1 THEN 2^(7 - nbits) + (fill % 2^(7 - nbits))
                ELSE fill]
Digests ==
    {PlantedDigest(nbytes, nbits, fill) : nbytes \in 0..31, nbits \in 0..7, fill \in {0, 255}}
    \cup {<<>> \o [i \in 1..32 |-> 0]}
\* What an output buffer from CreateEmptyBuffer may hold before the kernel
\* has run.
Leftover == {<<>> \o [i \in 1..32 |-> 0], <<>> \o [i \in 1..32 |-> 170]}

InitCall ==
    /\ call \in [fn : {"sha256_generic"}, input : Messages, output : {<<>>}, returned : {FALSE}]
              \cup [fn : {"sha256"}, input : TestVectors, output : Leftover, returned : {FALSE}]
              \cup [fn : {"count_leading_zero_bits"}, input : Digests, output : {<<>>},
                    returned : {FALSE}]
    /\ generation = "legacy"
    /\ batchSizePower = 0
    /\ device = SmallDevice
    /\ input = EvSmall
    /\ event = EvSmall
    /\ difficulty = 0
    /\ currentDigits = 5
    /\ currentNonce = Zero64
    /\ arch = "amd64"
    /\ kernelMode = "exact"
    /\ batchSize = 1
    /\ minRequiredDigits = MinRequiredDigits(batchSize)
    /\ maxRequiredDigits = MaxRequiredDigits(difficulty)
    /\ pc = "Call"
    /\ maxNonceValue = Zero64
    /\ serialized = <<>>
    /\ nonceOffset = 0
    /\ remaining = 0
    /\ results = <<>>
    /\ pending = <<>>
    /\ lane = 0
    /\ found = FALSE
    /\ foundNonce = Zero64
    /\ foundEventID = <<>>
    /\ output = NoOutput
    /\ fatal = ""
    /\ dispatched = <<>>
    /\ batchesInWidth = 0

CallUnchanged == <<generation, input, batchSizePower, device, pending, arch, kernelMode, difficulty, batchSize,
                   minRequiredDigits, maxRequiredDigits, event, pc, currentDigits, maxNonceValue,
                   currentNonce, serialized, nonceOffset, remaining, results, lane, found,
                   foundNonce, foundEventID, output, fatal, dispatched, batchesInWidth>>
\* sha256_generic of mine.cl runs on the input and returns the digest.
CallSha256Generic ==
    /\ pc = "Call" /\ call.fn = "sha256_generic" /\ ~call.returned
    /\ call' = [call EXCEPT !.returned = TRUE,
                            !.output = sha256_generic(call.input, Len(call.input))]
    /\ UNCHANGED CallUnchanged
\* The kernel sha256 of sha256.cl runs as one work-item.
CallSha256 ==
    /\ pc = "Call" /\ call.fn = "sha256" /\ ~call.returned
    /\ call' = [call EXCEPT !.returned = TRUE,
                            !.output = sha256(call.input, call.output, Len(call.input))]
    /\ UNCHANGED CallUnchanged
\* count_leading_zero_bits runs on a digest.
CallCountLeadingZeroBits ==
    /\ pc = "Call" /\ call.fn = "count_leading_zero_bits" /\ ~call.returned
    /\ call' = [call EXCEPT !.returned = TRUE,
                            !.output = <<count_leading_zero_bits(call.input)>>]
    /\ UNCHANGED CallUnchanged

NextCall == CallSha256Generic \/ CallSha256 \/ CallCountLeadingZeroBits
SpecCall == InitCall /\ [][NextCall]_vars

\* ---------------------------------------------------------------------
\* main: the batch size
\* ---------------------------------------------------------------------
\* The devices explored.  The global memory is counted in MiB.
Devices ==
    [MaxComputeUnits : {1, 64}, MaxWorkGroupSize : {1, 256, 1024, 16777216},
     GlobalMemSize : {64, 8192, 262144}, isGPU : BOOLEAN]
\* The values -batch-size passes the check of main: -1..6 in main.go and
\* -1..10 in the current main; the model stops at 9 (10^10 needs more than
\* 31 bits), where the steps treat the batch size as they do 10^10.
BatchSizePowers(gen) == IF gen = "legacy" THEN -1..6 ELSE -1..9
\* int(globalMemSize / (2048 + 4) / 100) for a memory of m MiB:
\* m * 2^20 / 205200 = m * 65536 / 12825, rounded down.
memoryLimit(m) == (m \div 12825) * 65536 + ((m % 12825) * 65536) \div 12825
\* The power auto-detection selects for the device.
AutoDetectedPower(dev) ==
    LET estimatedCapacity == dev.MaxComputeUnits * dev.MaxWorkGroupSize
        limit == memoryLimit(dev.GlobalMemSize)
        optimalSize == IF estimatedCapacity \div 10 > limit THEN limit
                       ELSE estimatedCapacity \div 10
    IN IF dev.isGPU
       THEN IF optimalSize >= 1000000 THEN 6
            ELSE IF optimalSize >= 100000 THEN 5
            ELSE 4
       ELSE IF optimalSize >= 100000 THEN 5
            ELSE IF optimalSize >= 10000 THEN 4
            ELSE IF optimalSize >= 1000 THEN 3
            ELSE 4
\* The greatest e with 10^e <= x, for x >= 1.
RECURSIVE FloorLog10From(_, _)
FloorLog10From(x, e) == IF x < 10 THEN e ELSE FloorLog10From(x \div 10, e + 1)
\* int(math.Floor(math.Log10(float64(x)))): math.Log10 multiplies Log2(x)
\* by Ln2/Ln10 in floating point, so at x = 10^e the product may fall just
\* below e and the floor is then e - 1.
FloorLog10(x) ==
    LET e == FloorLog10From(x, 0)
    IN IF e >= 1 /\ x = 10^e THEN {e - 1, e} ELSE {e}
\* resultSize of the generation: 41 bytes in main.go, an int32 in main.
ResultSizeOf(gen) == IF gen = "legacy" THEN resultSize ELSE 4
maxResultsBufferSize == 100 * 1024 * 1024

InitBatch ==
    /\ generation \in {"legacy", "current"}
    /\ batchSizePower \in BatchSizePowers(generation)
    /\ device \in Devices
    /\ call = NoCall
    /\ input = EvSmall
    /\ event = EvSmall
    /\ difficulty = 0
    /\ currentDigits = 5
    /\ currentNonce = Zero64
    /\ arch = "amd64"
    /\ kernelMode = "exact"
    /\ batchSize = 0
    /\ minRequiredDigits = 5
    /\ maxRequiredDigits = MaxRequiredDigits(difficulty)
    /\ pc = "Setup"
    /\ maxNonceValue = Zero64
    /\ serialized = <<>>
    /\ nonceOffset = 0
    /\ remaining = 0
    /\ results = <<>>
    /\ pending = <<>>
    /\ lane = 0
    /\ found = FALSE
    /\ foundNonce = Zero64
    /\ foundEventID = <<>>
    /\ output = NoOutput
    /\ fatal = ""
    /\ dispatched = <<>>
    /\ batchesInWidth = 0

BatchUnchanged == <<generation, input, call, device, pending, arch, kernelMode, difficulty,
                    maxRequiredDigits, event, maxNonceValue,
                    currentNonce, serialized, nonceOffset, remaining, results, lane, found,
                    foundNonce, foundEventID, output, fatal, dispatched, batchesInWidth>>
\* -batch-size -1: the power is chosen from what the device reports.
AutoDetect ==
    /\ pc = "Setup" /\ batchSizePower = -1
    /\ batchSizePower' = AutoDetectedPower(device)
    /\ UNCHANGED <<BatchUnchanged, batchSize, pc, minRequiredDigits, currentDigits>>
\* batchSize = 10^power, then the limit of 100 work-groups of the largest
\* size, rounded down to a power of ten.
WorkGroupLimit ==
    /\ pc = "Setup" /\ batchSizePower # -1
    /\ LET maxWorkGroupSize == device.MaxWorkGroupSize
       IN IF 10^batchSizePower > maxWorkGroupSize * 100
          THEN \E batchSizePowerAdjusted \in FloorLog10(maxWorkGroupSize * 100) :
                  batchSize' = 10^batchSizePowerAdjusted
          ELSE batchSize' = 10^batchSizePower
    /\ pc' = "Limited"
    /\ UNCHANGED <<BatchUnchanged, batchSizePower, minRequiredDigits, currentDigits>>
\* The width the search starts with, from the batch size as it stands.
MinDigits ==
    /\ pc = "Limited"
    /\ minRequiredDigits' = MinRequiredDigits(batchSize)
    /\ currentDigits' = minRequiredDigits'
    /\ pc' = "Sized"
    /\ UNCHANGED <<BatchUnchanged, batchSizePower, batchSize>>
\* The results buffer is held to 100MB.  batchSize * resultSize exceeds the
\* ceiling exactly when batchSize exceeds the ceiling divided by resultSize.
ResultsCeiling ==
    /\ pc = "Sized"
    /\ batchSize' = IF batchSize > maxResultsBufferSize \div ResultSizeOf(generation)
                    THEN maxResultsBufferSize \div ResultSizeOf(generation)
                    ELSE batchSize
    /\ pc' = "Ready"
    /\ UNCHANGED <<BatchUnchanged, batchSizePower, minRequiredDigits, currentDigits>>

NextBatch == AutoDetect \/ WorkGroupLimit \/ MinDigits \/ ResultsCeiling
SpecBatch == InitBatch /\ [][NextBatch]_vars

\* ---------------------------------------------------------------------
\* main: the batch loop with the lanes of a dispatch in flight
\* ---------------------------------------------------------------------
\* Batches of one width explored.
MaxFlightBatches == 3
FlightBatchSizes == {2, 3}

InitFlight ==
    /\ generation = "current"
    /\ input \in {EvSmall, EvTagged}
    /\ difficulty \in {0, 2}
    /\ batchSize \in FlightBatchSizes
    /\ call = NoCall
    /\ batchSizePower = 1
    /\ device = SmallDevice
    /\ arch = "amd64"
    /\ kernelMode = "exact"
    /\ event = [input EXCEPT !.tags = FilterMain(input.tags)]
    /\ minRequiredDigits = MinRequiredDigits(batchSize)
    /\ maxRequiredDigits = MaxRequiredDigits(difficulty)
    /\ pc = "Sizing"
    /\ currentDigits = minRequiredDigits
    /\ maxNonceValue = Zero64
    /\ currentNonce = Zero64
    /\ serialized = <<>>
    /\ nonceOffset = 0
    /\ remaining = 0
    /\ results = Garbage(batchSize)
    /\ pending = <<>>
    /\ lane = 0
    /\ found = FALSE
    /\ foundNonce = Zero64
    /\ foundEventID = <<>>
    /\ output = NoOutput
    /\ fatal = ""
    /\ dispatched = <<>>
    /\ batchesInWidth = 0

\* The head of the batch loop: the work size and the eight SetArg calls.
BindArguments ==
    /\ pc = "Dispatch"
    /\ I64Le(currentNonce, maxNonceValue) /\ ~found
    /\ batchesInWidth < MaxFlightBatches
    /\ remaining' = Remaining
    /\ pc' = "Bound"
    /\ UNCHANGED <<generation, input, call, batchSizePower, device, pending, arch, kernelMode, difficulty,
                   batchSize, minRequiredDigits, maxRequiredDigits, event, currentDigits,
                   maxNonceValue, currentNonce, serialized, nonceOffset, results, lane, found,
                   foundNonce, foundEventID, output, fatal, dispatched, batchesInWidth>>
\* EnqueueNDRangeKernel: the work-items of the dispatch start to run.
Submit ==
    /\ pc = "Bound"
    /\ IF remaining <= 0
       THEN /\ pc' = "Fatal" /\ fatal' = "Failed to enqueue kernel"
            /\ UNCHANGED <<pending, dispatched, batchesInWidth>>
       ELSE /\ pc' = "Kernel" /\ fatal' = fatal
            /\ pending' = [g \in 1..remaining |-> [started |-> FALSE, stores |-> <<>>]]
            /\ dispatched' = Record(<<currentDigits, currentNonce, U64FromNat(remaining)>>)
            /\ batchesInWidth' = batchesInWidth + 1
    /\ UNCHANGED <<generation, input, call, batchSizePower, device, arch, kernelMode, difficulty,
                   batchSize, minRequiredDigits, maxRequiredDigits, event, currentDigits,
                   maxNonceValue, currentNonce, serialized, nonceOffset, remaining, results,
                   lane, found, foundNonce, foundEventID, output>>
\* A faulty variant of the read of the results that does not wait for the
\* dispatch.
ReadResultsNonBlocking ==
    /\ pc = "Kernel"
    /\ pc' = "Harvest"
    /\ lane' = 0
    /\ UNCHANGED <<generation, input, call, batchSizePower, device, pending, arch, kernelMode, difficulty,
                   batchSize, minRequiredDigits, maxRequiredDigits, event, currentDigits,
                   maxNonceValue, currentNonce, serialized, nonceOffset, remaining, results,
                   found, foundNonce, foundEventID, output, fatal, dispatched, batchesInWidth>>
\* EnqueueReadBuffer with blocking = true on the in-order queue: it returns
\* when every work-item of the dispatch has finished.
ReadResults ==
    /\ pc = "Kernel"
    /\ \A g \in 1..Len(pending) : pending[g].started /\ pending[g].stores = <<>>
    /\ pc' = "Harvest"
    /\ lane' = 0
    /\ UNCHANGED <<generation, input, call, batchSizePower, device, pending, arch, kernelMode, difficulty,
                   batchSize, minRequiredDigits, maxRequiredDigits, event, currentDigits,
                   maxNonceValue, currentNonce, serialized, nonceOffset, remaining, results,
                   found, foundNonce, foundEventID, output, fatal, dispatched, batchesInWidth>>

NextFlight == Sizing \/ BindArguments \/ Submit \/ WorkItemBegin \/ WorkItemStore \/ ReadResults
              \/ HarvestMiss \/ HarvestAccept \/ HarvestDone
SpecFlight == InitFlight /\ [][NextFlight]_vars

\* ---------------------------------------------------------------------
\* Properties of the host loop (Spec)
\* ---------------------------------------------------------------------
\* 10^e as an unsigned 64-bit value, e <= 19.
Pow10(e) == TimesTen[U64FromNat(1), 0, e]
\* The tag is a nonce tag that carries the nonce n and the target d.
IsNonceTagOf(tag, n, d) ==
    /\ Len(tag) = 3
    /\ tag[1] = NonceKey
    /\ tag[2] \in {SprintfU64(w, n) : w \in 1..22}
    /\ tag[3] = Itoa[d]

\* C1: an emitted record carries the winning nonce in its nonce tag, its id
\* is the SHA-256 digest of its own canonical serialization, and that digest
\* has at least `difficulty` leading zero bits, whatever the lanes reported.
C1_EmittedRecordIsVerified ==
    output # NoOutput =>
        /\ output.ID = HexEncode(Sum256(Serialize(output)))
        /\ Difficulty(output.ID) >= difficulty
        /\ \E i \in 1..Len(output.tags) : IsNonceTagOf(output.tags[i], foundNonce, difficulty)
\* A record was emitted although the device reported wrong lanes: a hit that
\* the host had to reject came before the accepted one.
C1_Witness ==
    /\ output # NoOutput
    /\ kernelMode = "faulty" /\ difficulty > 0
    /\ generation = "current" /\ lane > 0 /\ results[1] >= 0

\* A lane of the current host reports a hit that validateNonce rejects.
RejectedHit ==
    /\ generation = "current"
    /\ pc = "Harvest" /\ lane < remaining
    /\ results[lane + 1] >= 0
    /\ ~validateNonce(CandidateNonce, event, difficulty, currentDigits)
\* C2: a reported hit that fails validateNonce neither ends the program nor
\* is accepted; the scan moves on to the next lane with the batch, the
\* progress and the width untouched, so every later candidate is still tried.
C2_RejectedHitContinues ==
    [][RejectedHit =>
          /\ pc' = "Harvest" /\ lane' = lane + 1
          /\ ~found' /\ fatal' = "" /\ output' = NoOutput
          /\ results' = results /\ remaining' = remaining
          /\ currentNonce' = currentNonce /\ currentDigits' = currentDigits]_vars
\* A hit of lane 0 was rejected and a later lane of the same batch accepted.
C2_Witness ==
    /\ generation = "current" /\ found /\ lane > 0
    /\ results[1] >= 0
    /\ ~validateNonce(U64Add(currentNonce, U64FromNat(results[1])), event, difficulty, currentDigits)

\* C3: of two batches dispatched one after the other the later range lies
\* strictly above the earlier one: its base is at least the earlier base
\* plus the earlier lane count, every range is non-empty and none wraps.
C3_RangesDisjointIncreasing ==
    /\ \A i \in 1..Len(dispatched) :
          /\ I64Lt(Zero64, dispatched[i][3])
          /\ U64Lt(dispatched[i][2], U64Add(dispatched[i][2], dispatched[i][3]))
    /\ Len(dispatched) = 2 =>
          ~U64Lt(dispatched[2][2], U64Add(dispatched[1][2], dispatched[1][3]))
\* Two consecutive dispatches on either side of a width change, with a
\* rejected hit in the later one.
C3_Witness ==
    /\ Len(dispatched) = 2
    /\ dispatched[1][1] < dispatched[2][1]
    /\ generation = "current" /\ pc = "Harvest" /\ lane > 0 /\ results[1] >= 0

\* C4: entering width w sets the base nonce to 10^(w-1) and the maximum to
\* 10^w - 1; the width changes only by one step up, and only when no
\* candidate was accepted and every nonce up to 10^w - 1 was dispatched.
C4_WidthRangeExact ==
    [][/\ (pc = "Sizing" /\ pc' = "Dispatch") =>
             /\ currentNonce' = Pow10(currentDigits - 1)
             /\ maxNonceValue' = U64Sub(Pow10(currentDigits), U64FromNat(1))
       /\ currentDigits' # currentDigits =>
             /\ currentDigits' = currentDigits + 1
             /\ ~found
             /\ currentNonce = Pow10(currentDigits)]_vars

\* C5: the search reports failure only with no record emitted, after the
\* last width up to the maximum was entered and all its nonces dispatched;
\* no width above the maximum is dispatched.
C5_FailureOnlyAfterExhaustion ==
    /\ fatal = "Could not find valid nonce" =>
          /\ output = NoOutput /\ ~found
          /\ currentDigits = maxRequiredDigits + 1
          /\ currentNonce = Pow10(maxRequiredDigits)
    /\ \A i \in 1..Len(dispatched) : dispatched[i][1] <= maxRequiredDigits

\* The run of the current host with the exact kernel and difficulty 0 has
\* accepted lane 0 of the first batch or is on its way there.
FirstLaneAccepts ==
    /\ pc \in {"Dispatch", "Harvest", "Final", "Done"}
    /\ currentDigits = minRequiredDigits
    /\ Len(dispatched) <= 1
    /\ pc = "Dispatch" => batchesInWidth = 0
    /\ pc = "Harvest" =>
          /\ lane = 0 /\ results[1] = 0
          /\ validateNonce(CandidateNonce, event, difficulty, currentDigits)
    /\ found => lane = 0 /\ foundNonce = Pow10(minRequiredDigits - 1)
ZeroDifficultyRun ==
    generation = "current" /\ kernelMode = "exact" /\ difficulty = 0 /\ pc # "Sizing"
LanePasses(j) ==
    IF generation = "current"
    THEN /\ results[j + 1] >= 0
         /\ validateNonce(U64Add(currentNonce, U64FromNat(results[j + 1])), event, difficulty,
                          currentDigits)
    ELSE results[j * resultSize + 1] = 1
\* C7: the harvest index goes up one lane at a time, and an accepted
\* candidate comes from the lowest lane of its batch whose result passes.
C7_LowestPassingLaneWins ==
    /\ [](found /\ pc \in {"Final", "Done"} => \A j \in 0..(lane - 1) : ~LanePasses(j))
    /\ [][pc = "Harvest" /\ lane' # lane => lane' = lane + 1 /\ lane < remaining]_vars
\* The exact kernel hit on a lane above 0 and that lane was accepted.
C7_Witness ==
    /\ pc = "Done" /\ kernelMode = "exact" /\ lane > 0

\* A results buffer in which every slot holds a hit of an earlier batch.
StaleHits(n) == <<>> \o (IF generation = "legacy" THEN [i \in 1..n |-> 1] ELSE [i \in 1..n |-> i - 1])
\* What the harvest loop can read of the first n slots: the int of a lane,
\* or in the 41-byte layout the flag and, under a flag of 1, the slot.
HostView(buf, n) ==
    IF generation = "legacy"
    THEN [g \in 0..(n - 1) |->
            IF buf[g * resultSize + 1] = 1
            THEN SubSeq(buf, g * resultSize + 1, g * resultSize + resultSize) ELSE <<0>>]
    ELSE SubSeq(buf, 1, n)
\* The kernel of the run's generation on the buffer buf with the arguments
\* of the batch last dispatched.
Rerun(buf) ==
    IF generation = "legacy" THEN LegacyRunKernel(buf, LegacyKernelArgs, remaining)
    ELSE RunKernel(buf, KernelArgs, remaining)
\* C11: what the host reads of the slots of a batch is what the kernel
\* leaves there from the arguments of that batch alone: the same on a
\* buffer full of hits of an earlier batch, and unchanged by a second run
\* on the same arguments.
C11_SlotsDependOnCurrentBatchOnly ==
    (pc = "Harvest" /\ lane = 0 /\ kernelMode = "exact") =>
        /\ HostView(results, remaining) = HostView(Rerun(StaleHits(Len(results))), remaining)
        /\ Rerun(results) = results
\* A batch of the poclbm kernel over left-over memory that read as hits:
\* lane 0 has overwritten its slot with a miss and another lane has hit.
C11_Witness ==
    /\ pc = "Harvest" /\ lane = 0 /\ kernelMode = "exact" /\ generation = "current"
    /\ Len(dispatched) = 1 /\ results[1] = -1
    /\ \E i \in 1..remaining : results[i] >= 0

\* The tag's first element is "nonce".
IsNonceTag(tag) == Len(tag) > 0 /\ tag[1] = NonceKey
NonceTags(tags) == {i \in 1..Len(tags) : IsNonceTag(tags[i])}
\* C12: from the start of the search on the record has at most one nonce
\* tag; while a width is searched it has exactly one, the last tag, whose
\* value is as wide as the width; an emitted record has exactly one.
C12_AtMostOneNonceTag ==
    /\ Cardinality(NonceTags(event.tags)) <= 1
    /\ pc \in {"Dispatch", "Harvest"} =>
          /\ NonceTags(event.tags) = {Len(event.tags)}
          /\ Len(event.tags[Len(event.tags)][2]) = currentDigits
    /\ output # NoOutput => Cardinality(NonceTags(output.tags)) = 1
\* A record that came with two nonce tags is in its second width.
C12_Witness ==
    /\ Cardinality(NonceTags(input.tags)) = 2
    /\ pc = "Harvest" /\ Len(dispatched) = 2 /\ dispatched[1][1] < dispatched[2][1]

\* The tags that are not nonce tags, in their order.
OtherTags(tags) == SelectSeq(tags, LAMBDA tag : ~IsNonceTag(tag))
\* C13: the emitted record has the pubkey, created_at, kind and content of
\* the input record and, in the same order, every tag of it that is not a
\* nonce tag.
C13_OnlyNonceTagAndIdChange ==
    output # NoOutput =>
        /\ OtherTags(output.tags) = OtherTags(input.tags)
        /\ output.pubkey = input.pubkey /\ output.created_at = input.created_at
        /\ output.kind = input.kind /\ output.content = input.content

\* What follows the value of the nonce tag, the last tag, in the
\* serialization: the quote, the target element, the end of the tag and of
\* the tags, the content and the end of the array.
AfterNonceValue ==
    <<34, 44>> \o escapeString(Itoa[difficulty]) \o <<93, 93, 44>>
    \o escapeString(event.content) \o <<93>>
\* The byte offset of the value of the nonce tag in the serialization.
NonceValueOffset == Len(serialized) - Len(AfterNonceValue) - currentDigits

\* C19: the nonce offset handed to the kernel is the byte offset of the
\* value of the nonce tag in the current serialization, whatever the other
\* fields of the record hold.
C19_NonceOffsetIsNonceTagValue ==
    pc = "Dispatch" => /\ nonceOffset = NonceValueOffset
                       /\ SubSeq(serialized, nonceOffset + 1, nonceOffset + currentDigits)
                             = event.tags[Len(event.tags)][2]

\* ---------------------------------------------------------------------
\* Properties of one kernel dispatch (SpecKernel)
\* ---------------------------------------------------------------------
\* The nonce work-item g derives: mine.cl widens its int base nonce with the
\* sign, the poclbm kernel joins the two halves.
LaneNonce(g) ==
    IF generation = "legacy"
    THEN U64Add(SignExtend(<<currentNonce[3], currentNonce[4]>>), U64FromNat(g))
    ELSE U64Add(currentNonce, U64FromNat(g))
\* nonce <= 10^w - 1 as integers; a 64-bit nonce is below 10^20.
WithinWidth(nonce, w) == w >= 20 \/ U64Lt(nonce, Pow10(w))
\* Work-item g has made all its stores.
Finished(g) == pc = "Kernel" /\ pending[g + 1].started /\ pending[g + 1].stores = <<>>
AllFinished == pc = "Kernel" /\ \A g \in 0..(remaining - 1) : Finished(g)
\* The input with the w bytes at the nonce offset replaced by the nonce as
\* the host renders it.
Candidate(nonce) ==
    LET str == SprintfU64(currentDigits, nonce)
    IN SubSeq(serialized, 1, nonceOffset) \o str
       \o SubSeq(serialized, nonceOffset + Len(str) + 1, Len(serialized))
\* The first byte of the slot of work-item g in the 41-byte layout.
SlotBase(g) == g * resultSize

\* C8: a lane of mine.cl with nonce <= 10^w - 1, a buffer of at most 2048
\* bytes and w <= 22 reports found exactly when the SHA-256 digest of the
\* buffer with the zero-padded nonce has at least `difficulty` leading zero
\* bits, and then it reports that nonce.
C8_FoundIffDigestMeetsDifficulty ==
    (AllFinished /\ generation = "legacy") =>
        \A g \in 0..(remaining - 1) :
            (/\ WithinWidth(LaneNonce(g), currentDigits)
             /\ Len(serialized) <= 2048
             /\ currentDigits <= 22) =>
                /\ results[SlotBase(g) + 1] = 1
                      <=> difficultyBytes(Sum256(Candidate(LaneNonce(g))), 1) >= difficulty
                /\ results[SlotBase(g) + 1] = 1 =>
                      BigEndianUint64(SubSeq(results, SlotBase(g) + 2, SlotBase(g) + 9))
                          = LaneNonce(g)

\* Work-item g left its slot as a lane that reports not found and writes
\* neither nonce nor digest.
ReportsNotFound(g) ==
    IF generation = "legacy"
    THEN /\ results[SlotBase(g) + 1] = 0
         /\ \A i \in 2..resultSize :
               results[SlotBase(g) + i] = Untouched(Len(results))[SlotBase(g) + i]
    ELSE results[g + 1] = -1
\* The lane must skip: its nonce is above 10^w - 1, or the buffer is over
\* 2048 bytes, or the width is over 22.
MustSkip(g) ==
    \/ ~WithinWidth(LaneNonce(g), currentDigits)
    \/ Len(serialized) > 2048
    \/ currentDigits > 22
\* C9: in both kernels a lane whose nonce exceeds 10^w - 1, or whose buffer
\* is longer than 2048 bytes, or whose width is over 22, reports not found
\* and writes no nonce and no digest, whatever its digest would have been.
C9_OutOfRangeLanesReportNotFound ==
    \A g \in 0..(remaining - 1) : (Finished(g) /\ MustSkip(g)) => ReportsNotFound(g)
\* At difficulty 0, where every digest passes, lane 0 of the poclbm kernel
\* has hit and lane 1, whose nonce is above 10^w - 1, has finished.
C9_Witness ==
    /\ AllFinished /\ difficulty = 0
    /\ generation = "current" /\ Len(serialized) <= 2048
    /\ results[1] = 0 /\ ~WithinWidth(LaneNonce(1), currentDigits)

\* The indices of the results buffer that belong to work-item g.
OwnSlot(g) ==
    IF generation = "legacy" THEN SlotBase(g)..(SlotBase(g) + resultSize - 1) ELSE {g}
\* The results buffer after the work-items have run one after the other.
SequentialResults ==
    IF generation = "legacy"
    THEN LegacyRunKernel(Untouched(Len(results)), LegacyKernelArgs, remaining)
    ELSE RunKernel(Untouched(Len(results)), KernelArgs, remaining)
\* C10: every store of work-item g goes to the results buffer and into g's
\* own slot, the input buffer stays as the host wrote it, and when all
\* work-items are done the results are those of a sequential run, whatever
\* the interleaving of the stores was.
C10_LanesShareNoMutableState ==
    pc = "Kernel" =>
        /\ \A g \in 0..(remaining - 1) :
              \A n \in 1..Len(pending[g + 1].stores) :
                  /\ pending[g + 1].stores[n].buf = "results"
                  /\ pending[g + 1].stores[n].index \in OwnSlot(g)
        /\ serialized = Serialize(event)
        /\ AllFinished => results = SequentialResults
\* Two work-items of mine.cl that both hit have interleaved their 41 stores
\* each and are done.
C10_Witness ==
    /\ AllFinished /\ generation = "legacy"
    /\ results[SlotBase(0) + 1] = 1 /\ results[SlotBase(1) + 1] = 1

\* The hit report of lane g as the results buffer holds it.
ReportedHit(g) ==
    IF generation = "legacy" THEN results[SlotBase(g) + 1] = 1 ELSE results[g + 1] # -1
\* The hit report the other kernel variant makes for the same buffer, nonce
\* offset, width, difficulty, base nonce and lane.
OtherVariantHit(g) ==
    IF generation = "legacy" THEN mine_nonce_poclbm(KernelArgs, g)[1][2] # -1
    ELSE mine_nonce(LegacyKernelArgs, g)[1][2] = 1
\* The base nonce fits the int of mine.cl, so both variants are given the
\* same base nonce.
SameBaseNonce == currentNonce[1] = 0 /\ currentNonce[2] = 0 /\ currentNonce[3] < 32768

\* C15: for the same buffer, nonce offset, width, difficulty, base nonce and
\* lane, the poclbm kernel reports a hit exactly when mine.cl does.
C15_VariantsReportSameHits ==
    \A g \in 0..(remaining - 1) :
        (Finished(g) /\ SameBaseNonce) => (ReportedHit(g) <=> OtherVariantHit(g))

\* The nonce the host means lane g to try: its 64-bit currentNonce + g.
HostNonce(g) == U64Add(currentNonce, U64FromNat(g))

\* C20: with main.go and mine.cl, the nonce lane g hashes and reports is
\* the host's 64-bit currentNonce + g: the lane derives that nonce, reports
\* found exactly when the digest of the buffer with that nonce meets the
\* difficulty, and then reports that nonce and that digest.
C20_LegacyLaneNonceIsHostNonce ==
    (generation = "legacy" /\ currentDigits <= 19 /\ Len(serialized) <= 2048) =>
        \A g \in 0..(remaining - 1) :
            (Finished(g) /\ WithinWidth(HostNonce(g), currentDigits)) =>
                /\ LaneNonce(g) = HostNonce(g)
                /\ results[SlotBase(g) + 1] = 1
                      <=> difficultyBytes(Sum256(Candidate(HostNonce(g))), 1) >= difficulty
                /\ results[SlotBase(g) + 1] = 1 =>
                      /\ BigEndianUint64(SubSeq(results, SlotBase(g) + 2, SlotBase(g) + 9))
                            = HostNonce(g)
                      /\ SubSeq(results, SlotBase(g) + 10, SlotBase(g) + 41)
                            = Sum256(Candidate(HostNonce(g)))

\* ---------------------------------------------------------------------
\* Properties of the device functions (SpecCall)
\* ---------------------------------------------------------------------
\* The bytes sha256_generic compresses, block after block.
RECURSIVE Flatten(_)
Flatten(blocks) == IF blocks = <<>> THEN <<>> ELSE Head(blocks) \o Flatten(Tail(blocks))
Compressed(msg) ==
    SubSeq(msg, 1, 64 * (Len(msg) \div 64)) \o Flatten(final_blocks(msg, Len(msg)))
\* The message with the padding of FIPS 180-4: 0x80, the least number of
\* zeros, and the bit length in eight bytes, most significant first (the
\* bit length of an input of this model is below 2^32).
StandardPadding(msg) ==
    LET zeros == CHOOSE z \in 0..63 : (Len(msg) + 1 + z + 8) % 64 = 0
    IN msg \o <<128>> \o [i \in 1..zeros |-> 0]
       \o [i \in 1..8 |-> IF i <= 4 THEN 0 ELSE ((8 * Len(msg)) \div 256^(8 - i)) % 256]
\* C14: for an input of any length up to 2048, sha256_generic of mine.cl
\* compresses the standard padded message: the complete blocks, then one
\* final block when the length mod 64 is below 56 and two otherwise, with
\* 0x80 after the input and the bit length in the last eight bytes.
C14_CompressesStandardPadding ==
    (pc = "Call" /\ call.fn = "sha256_generic") =>
        /\ Compressed(call.input) = StandardPadding(call.input)
        /\ Len(final_blocks(call.input, Len(call.input)))
              = (IF Len(call.input) % 64 < 56 THEN 1 ELSE 2)
        /\ call.returned =>
              call.output = WriteOutput(CompleteBlocks[H0, StandardPadding(call.input), 0,
                                                       Len(StandardPadding(call.input)) \div 64])
\* The digest of an input of 2048 bytes, the longest, has returned.
C14_Witness ==
    /\ pc = "Call" /\ call.fn = "sha256_generic" /\ call.returned
    /\ Len(call.input) = 2048 /\ Len(call.output) = 32

\* Bit n of the digest h, counted from the most significant bit of byte 0.
Bit(h, n) == (h[n \div 8 + 1] \div 2^(7 - (n % 8))) % 2
\* The number of zero bits in front of the first one bit of h.
LeadingZeros(h) ==
    IF \A n \in 0..255 : Bit(h, n) = 0 THEN 256
    ELSE CHOOSE n \in 0..255 : Bit(h, n) = 1 /\ \A m \in 0..(n - 1) : Bit(h, m) = 0

\* C16: count_leading_zero_bits returns the number of consecutive zero bits
\* of the 32-byte digest read byte by byte, most significant bit first: 256
\* for the all-zero digest, 0 when the top bit of byte 0 is set, and
\* 8 * b + j when the first non-zero byte is byte b and has j leading zero
\* bits.
C16_CountsLeadingZeroBits ==
    (pc = "Call" /\ call.fn = "count_leading_zero_bits" /\ call.returned) =>
        LET h == call.input
            count == call.output[1]
        IN /\ count = LeadingZeros(h)
           /\ (\A i \in 1..32 : h[i] = 0) => count = 256
           /\ h[1] >= 128 => count = 0
           /\ \A b \in 0..31, j \in 0..7 :
                 (/\ \A i \in 1..b : h[i] = 0
                  /\ h[b + 1] >= 2^(7 - j)
                  /\ h[b + 1] < 2^(8 - j)) => count = 8 * b + j
\* The scan has passed a zero byte and stopped inside a byte that is followed
\* by non-zero bytes.
C16_Witness ==
    /\ pc = "Call" /\ call.fn = "count_leading_zero_bits" /\ call.returned
    /\ call.input[1] = 0 /\ call.input[2] = 7 /\ call.input[32] = 255
    /\ call.output = <<13>>

\* SHA-256 of the empty input, of "abc" and of the 56-byte message, as
\* FIPS 180-4 gives them.
EmptyDigest ==
    <<227, 176, 196, 66, 152, 252, 28, 20, 154, 251, 244, 200, 153, 111, 185, 36,
      39, 174, 65, 228, 100, 155, 147, 76, 164, 149, 153, 27, 120, 82, 184, 85>>
AbcDigest ==
    <<186, 120, 22, 191, 143, 1, 207, 234, 65, 65, 64, 222, 93, 174, 34, 35,
      176, 3, 97, 163, 150, 23, 122, 156, 180, 16, 255, 97, 242, 0, 21, 173>>
TwoBlockDigest ==
    <<36, 141, 106, 97, 210, 6, 56, 184, 229, 192, 38, 147, 12, 62, 96, 57,
      163, 60, 228, 89, 100, 255, 33, 103, 246, 236, 237, 212, 25, 219, 6, 193>>
\* The digest the standard gives for a test vector.
ReferenceDigest(msg) ==
    IF msg = <<>> THEN EmptyDigest ELSE IF msg = Abc THEN AbcDigest ELSE TwoBlockDigest

\* C17: the digest a kernel computes for the empty input, for "abc" and for
\* the 56-byte message that pads to two blocks is the SHA-256 digest, 32
\* bytes long.
C17_DigestMatchesTestVectors ==
    (/\ pc = "Call" /\ call.fn \in {"sha256_generic", "sha256"} /\ call.returned
     /\ call.input \in TestVectors) =>
        /\ Len(call.output) = 32
        /\ call.output = ReferenceDigest(call.input)

\* ---------------------------------------------------------------------
\* Properties of the batch size (SpecBatch)
\* ---------------------------------------------------------------------
IsPowerOfTen(n) == \E e \in 0..9 : n = 10^e

\* C18: the batch size used for dispatch, after auto-detection or
\* -batch-size, the work-group limit and the 100MB ceiling, is a power of
\* ten.
C18_BatchSizeIsPowerOfTen == pc = "Ready" => IsPowerOfTen(batchSize)

\* ---------------------------------------------------------------------
\* Further properties of the host loop (Spec)
\* ---------------------------------------------------------------------
\* The harvest loop of main stands at a slot that reports a hit.
AtCandidate ==
    /\ generation = "current" /\ pc = "Harvest" /\ lane < remaining
    /\ results[lane + 1] >= 0
\* The record with the candidate nonce rendered at the current width in its
\* nonce tag, the last tag.
RenderedRecord ==
    [event EXCEPT !.tags[Len(event.tags)][2] = SprintfU64(currentDigits, CandidateNonce)]
\* The id recomputed from the rendered record has at least `difficulty`
\* leading zero bits.
RecomputedIdMeetsDifficulty == LeadingZeros(Sum256(Serialize(RenderedRecord))) >= difficulty

\* C21: validateNonce accepts a candidate exactly when the id recomputed
\* from the record with the candidate nonce at the current width has at
\* least `difficulty` leading zero bits; the committed difficulty never
\* turns down a candidate that meets the threshold.
C21_ValidateNonceIsDifficultyTest ==
    [][AtCandidate => /\ found' <=> RecomputedIdMeetsDifficulty
                      /\ found' <=> validateNonce(CandidateNonce, event, difficulty, currentDigits)
                      /\ found' => foundNonce' = CandidateNonce]_vars
\* A candidate was accepted at difficulty 0, where the committed difficulty
\* of the record reads 0.
C21_Witness ==
    /\ generation = "current" /\ pc = "Final" /\ found /\ difficulty = 0
    /\ foundEventID = Sum256(Serialize([event EXCEPT !.tags[Len(event.tags)][2] =
                                            SprintfU64(currentDigits, foundNonce)]))
    /\ CommittedDifficulty([event EXCEPT !.ID = HexEncode(foundEventID)]) = 0

\* The placeholder of the current width.
Placeholder == SprintfI64(currentDigits, Int64Pow10(currentDigits - 1, arch))
\* The input buffer, its length, the nonce offset and the width that the
\* next dispatch binds, or that the dispatch under harvest has bound.
BoundArguments ==
    IF generation = "legacy"
    THEN <<LegacyKernelArgs.base_serialized, LegacyKernelArgs.serialized_length,
           LegacyKernelArgs.nonce_offset, LegacyKernelArgs.num_digits>>
    ELSE <<KernelArgs.base_serialized, KernelArgs.serialized_length,
           KernelArgs.nonce_offset, KernelArgs.num_digits>>

\* C22: at every dispatch the input buffer, its length, the nonce offset
\* and the digit width are those of the serialization made for the current
\* width, with the placeholder of that width in the nonce tag.
C22_ArgumentsFromCurrentWidth ==
    pc \in {"Dispatch", "Harvest"} =>
        /\ event.tags[Len(event.tags)] = <<NonceKey, Placeholder, Itoa[difficulty]>>
        /\ BoundArguments = <<Serialize(event), Len(Serialize(event)),
                              BytesIndex(Serialize(event), Placeholder), currentDigits>>
        /\ pc = "Harvest" => dispatched[Len(dispatched)][1] = currentDigits
\* A dispatch has been made in a width entered by a width change.
C22_Witness ==
    /\ pc = "Harvest" /\ Len(dispatched) = 2
    /\ dispatched[1][1] < dispatched[2][1]
    /\ dispatched[2][1] = currentDigits

\* The host has submitted a dispatch: its results are under harvest, or the
\* submission failed.
Submitted == pc = "Harvest" \/ fatal = "Failed to enqueue kernel"
\* The bytes of the results buffer: bytes in the 41-byte layout, one int32
\* per element otherwise.
resultsBufferSize == IF generation = "legacy" THEN Len(results) ELSE 4 * Len(results)
\* The smaller of two unsigned 64-bit values.
U64Min(a, b) == IF U64Lt(a, b) THEN a ELSE b

\* C23: on every dispatch the lane count is min(batch size, max_nonce -
\* base_nonce + 1): it is at least 1 and at most the batch size, the lanes'
\* results fit the results buffer, and no lane's nonce is above max_nonce.
C23_LaneCountWithinBatchAndRange ==
    Submitted =>
        /\ 1 <= remaining /\ remaining <= batchSize
        /\ U64FromNat(remaining) = U64Min(U64FromNat(batchSize), Undispatched)
        /\ remaining * ResultSizeOf(generation) <= resultsBufferSize
        /\ \A i \in 0..(remaining - 1) :
              /\ I64Le(U64Add(currentNonce, U64FromNat(i)), maxNonceValue)
              /\ WithinWidth(U64Add(currentNonce, U64FromNat(i)), currentDigits)

\* ---------------------------------------------------------------------
\* Properties of the initial width (SpecBatch)
\* ---------------------------------------------------------------------
\* The least p with 10^p >= x, for 1 <= x <= 10^9.
CeilingOfLog10(x) == CHOOSE p \in 0..9 : 10^p >= x /\ (p = 0 \/ 10^(p - 1) < x)
\* The width w holds a full batch of n nonces: 10^w - 10^(w-1) >= n.
HoldsFullBatch(w, n) == ~U64Lt(U64Sub(Pow10(w), Pow10(w - 1)), U64FromNat(n))

\* C24: the initial width is max(5, ceil(log10(batch size)) + 1), so the
\* initial width and every later width is at least 5 and holds at least
\* one full batch of the size used for dispatch.
C24_InitialWidthHoldsFullBatch ==
    /\ pc = "Sized" =>
          /\ minRequiredDigits = (IF CeilingOfLog10(batchSize) + 1 < 5 THEN 5
                                  ELSE CeilingOfLog10(batchSize) + 1)
          /\ currentDigits = minRequiredDigits
    /\ pc = "Ready" =>
          /\ currentDigits = minRequiredDigits /\ minRequiredDigits >= 5
          /\ \A w \in minRequiredDigits..19 : HoldsFullBatch(w, batchSize)
\* A batch of 100000 is ready for dispatch: the initial width is over the
\* floor of 5.
C24_Witness == pc = "Ready" /\ batchSize = 100000 /\ minRequiredDigits = 6
\* ---------------------------------------------------------------------
\* Properties of a batch in flight (SpecFlight)
\* ---------------------------------------------------------------------
\* Every lane of the dispatch has run to its end.
AllLanesFinished == \A g \in 1..Len(pending) : pending[g].started /\ pending[g].stores = <<>>
\* A batch has been submitted and its results have not been read back.
InFlight == pc = "Kernel"
\* What a dispatch in flight reads: the bound arguments and the input buffer.
FlightInputs == <<KernelArgs, serialized, nonceOffset, currentNonce, currentDigits, difficulty, remaining>>
\* The order of the steps of one batch.
BatchOrder ==
    /\ pc = "Dispatch" => pc' \in {"Dispatch", "Bound"}
    /\ pc = "Bound" => pc' \in {"Bound", "Kernel", "Fatal"}
    /\ pc = "Kernel" => pc' \in {"Kernel", "Harvest"}
    /\ pc = "Harvest" => pc' \in {"Harvest", "Dispatch", "Final"}

\* C25: per batch the host binds the arguments, submits the dispatch, blocks
\* until the results are read back and then scans them; the scan starts only
\* when every lane has finished, the arguments and the input buffer do not
\* change while a batch is in flight, and a batch is submitted only when no
\* other batch is in flight.
C25_BatchStepsInOrder ==
    [][/\ BatchOrder
       /\ pc' = "Harvest" => AllLanesFinished'
       /\ InFlight => UNCHANGED FlightInputs
       /\ (InFlight' /\ ~InFlight) => (pc = "Bound" /\ AllLanesFinished
                                        /\ \A g \in 1..Len(pending') : ~pending'[g].started)]_vars
C25_Witness ==
    /\ pc = "Harvest" /\ lane = 0 /\ batchesInWidth = 2
    /\ Len(pending) = remaining /\ AllLanesFinished
    /\ \E g \in 1..remaining : results[g] = -1

\* ---------------------------------------------------------------------
\* Properties of the order of the search (Spec)
\* ---------------------------------------------------------------------
\* The digest of the record with nonce n in the nonce tag meets the
\* difficulty.
Qualifies(n) ==
    LeadingZeros(Sum256(Serialize([event EXCEPT !.tags[Len(event.tags)][2] = SprintfU64(currentDigits, n)])))
        >= difficulty
\* The first nonce of the search, 10^(w0-1).
FirstNonce == Int64Pow10(minRequiredDigits - 1, arch)
\* The nonces of the search below x, for x among the nonces of the batches
\* explored in the initial width.
NoncesBelow(x) ==
    {n \in {U64Add(FirstNonce, U64FromNat(i)) : i \in 0..(batchSize * (MaxBatchesPerWidth + 1))} : U64Lt(n, x)}
\* The host with the poclbm kernel run as written, on a record whose
\* serialization the kernel takes, in the initial width.
ExactSearch ==
    /\ generation = "current" /\ kernelMode = "exact"
    /\ pc \in {"Dispatch", "Harvest", "Final", "Done"}
    /\ Len(serialized) <= 2048
    /\ currentDigits = minRequiredDigits

FitsInt64(x) == x[1] < 32768
\* The kernel's limit on the digits of a nonce.
KernelDigitLimit == 22

\* C27: in every width the search enters, 10^(w-1) and 10^w - 1 fit the
\* signed 64-bit counter of the host, the width is within the kernel's
\* 22 digits, and the bounds of the batch loop are 10^(w-1) and 10^w - 1.
C27_WidthBoundsRepresentable ==
    pc \in {"Dispatch", "Harvest"} =>
        /\ minRequiredDigits <= currentDigits /\ currentDigits <= maxRequiredDigits
        /\ currentDigits <= KernelDigitLimit
        /\ currentDigits <= 19
        /\ FitsInt64(Pow10(currentDigits - 1))
        /\ FitsInt64(U64Sub(Pow10(currentDigits), U64FromNat(1)))
        /\ Int64Pow10(currentDigits - 1, arch) = Pow10(currentDigits - 1)
        /\ maxNonceValue = U64Sub(Pow10(currentDigits), U64FromNat(1))
        /\ batchesInWidth = 0 => currentNonce = Pow10(currentDigits - 1)

\* ---------------------------------------------------------------------
\* Properties of the progress of the loops (Spec)
\* ---------------------------------------------------------------------
\* The run is in the width loop or the batch loop.
InLoops == pc \in {"Sizing", "Dispatch", "Harvest"}
\* The loops are left with a nonce accepted.
LoopAccepts == pc' = "Final" /\ found'
\* The loops are left with the exhaustion failure.
LoopExhausted == pc' = "Fatal" /\ fatal' = "Could not find valid nonce" /\ currentDigits > maxRequiredDigits

\* C28: an iteration of the batch loop accepts or moves currentNonce up by
\* its lane count, which is at least 1; the width only goes up by one and
\* not beyond one past the max width; the loops are left only with a nonce
\* accepted or with the exhaustion failure.
C28_LoopsProgressToAcceptOrExhaustion ==
    [][/\ (pc = "Harvest" /\ pc' # "Harvest") =>
             \/ LoopAccepts
             \/ /\ pc' = "Dispatch" /\ remaining >= 1
                /\ currentNonce' = U64Add(currentNonce, U64FromNat(remaining))
                /\ I64Lt(currentNonce, currentNonce')
       /\ (pc = "Dispatch" /\ pc' = "Dispatch") => I64Lt(currentNonce, currentNonce')
       /\ currentDigits' # currentDigits =>
             currentDigits' = currentDigits + 1 /\ currentDigits <= maxRequiredDigits
       /\ (InLoops /\ ~InLoops') => (LoopAccepts \/ LoopExhausted)]_vars

\* ---------------------------------------------------------------------
\* Properties of the indices of a lane (Spec)
\* ---------------------------------------------------------------------
\* The indices a lane of the dispatch under harvest uses, from the bound
\* arguments: serialized_copy[i] = base_serialized[i] for the copy,
\* nonce_str[i] for the digits, serialized_copy[nonce_offset + i] for the
\* replacement.
CopyIndices == 0..(BoundArguments[2] - 1)
DigitIndices == 0..(BoundArguments[4] - 1)
ReplaceIndices == {BoundArguments[3] + i : i \in DigitIndices}
\* The lanes of the dispatch get past the guards on the length and the width.
LanesCopy == BoundArguments[2] <= 2048 /\ BoundArguments[4] <= KernelDigitLimit

\* C29: the lanes of every dispatch that copy the input and write the nonce
\* digits stay within the input buffer, the 2048-byte copy and the 22-byte
\* digit array: the nonce offset is not negative and the digits end within
\* the serialization.
C29_LaneIndicesInBounds ==
    (pc = "Harvest" /\ LanesCopy) =>
        /\ BoundArguments[3] >= 0
        /\ BoundArguments[3] + BoundArguments[4] <= BoundArguments[2]
        /\ CopyIndices \subseteq 0..(Len(BoundArguments[1]) - 1)
        /\ CopyIndices \subseteq 0..2047
        /\ DigitIndices \subseteq 0..(KernelDigitLimit - 1)
        /\ ReplaceIndices \subseteq CopyIndices
C29_Witness ==
    /\ generation = "current" /\ pc = "Harvest" /\ LanesCopy
    /\ BoundArguments[3] > 0 /\ ReplaceIndices # {}
    /\ results[1] >= 0

\* ---------------------------------------------------------------------
\* Properties of the final nonce string (Spec)
\* ---------------------------------------------------------------------
\* The value of the nonce tag of the emitted record.
EmittedNonceString == output.tags[Len(output.tags)][2]
\* The string validateNonce rendered for the accepted nonce.
ValidatedNonceString == SprintfU64(currentDigits, foundNonce)

\* C30: the current host never ends in the id mismatch after validation,
\* and the nonce string of the record it emits is the validated string;
\* with the kernel run as written, which reports a lane under its own
\* index, the string is as many digits long as the width in which the
\* nonce was found.
C30_EmittedNonceHasTierWidth ==
    generation = "current" =>
        /\ fatal # "Event ID mismatch"
        /\ pc = "Done" => /\ output # NoOutput
                          /\ EmittedNonceString = ValidatedNonceString
                          /\ GetID(output) = HexEncode(foundEventID)
                          /\ kernelMode = "exact" => Len(EmittedNonceString) = currentDigits
C30_Witness ==
    /\ generation = "current" /\ kernelMode = "exact" /\ pc = "Done" /\ output # NoOutput
    /\ difficulty > 0 /\ lane > 0
    /\ Len(EmittedNonceString) = currentDigits

====
